---------------------------- MODULE Spec2Model ----------------------------
(***************************************************************************)
(* A model of the messaging core of whole_body_control:                    *)
(*   - wbcrun::UserProcess (the command console) with its request/reply    *)
(*     discipline, MyServiceTransaction and the lazily cached behavior     *)
(*     list;                                                               *)
(*   - wbcnet::TCPServerNetConfig / TCPClientNetConfig::CreateChannel.     *)
(* The console and the channel factory are checked under separate          *)
(* specifications (Spec, NetSpec, NetSpecFair) over one set of variables.  *)
(***************************************************************************)
EXTENDS Integers, Sequences, FiniteSets, TLC

(***************************************************************************)
(* Bounds of the model.                                                    *)
(***************************************************************************)
\* number of service requests the console builds in one run
MaxRequests == 2
\* number of messages that fit into the link towards the servo / the console
MaxQueue == 2
\* number of behavior switches (task specs) accepted in one run
MaxTaskSpecs == 2
\* Accept / Connect attempts of one CreateChannel that are counted
MaxAttempts == 3
\* calls of UserProcess::Init in one run
MaxInitCalls == 3
\* calls of TaskPostureOTGPlugin::uiCallback in one run
MaxUiCalls == 2
\* calls of TaskPostureOTGPlugin::update in one run
MaxUpdates == 2

(***************************************************************************)
(* Values.                                                                 *)
(***************************************************************************)
\* numeric_limits<uint8_t>::max(), the behaviorID sentinel set by Init()
NoBehavior == 255

\* the behavior listings a servo can report (an empty one included)
Listings == { <<>>, <<"a", "b">> }

\* result codes carried in a reply
SrvResults == { "SUCCESS", "NOT_IMPLEMENTED" }

\* first tokens of a console line; "foo" stands for every unknown token
SimpleTokens == { "pos", "endpos", "vel", "tau", "float", "activate" }
Tokens == SimpleTokens \cup
          { "go", "b?", "b", "B", "setgoal", "r", "k", "setgains", "foo" }

\* behavior numbers typed after b / B; -1 is a negative number
BehaviorNumbers == { -1, 0, 1, 2 }

VARIABLES
  pc,                    \* position of the console process
  cinGood,               \* std::cin has no failbit/eofbit set
  token,                 \* first token of the line Step is executing
  bnum,                  \* behavior number read by the b / B command
  site,                  \* call site of the running GetBehaviorList
  m_channel,             \* 0: null, 1: the channel created by Init
  m_user_request,        \* the reused request message
  m_user_reply,          \* the reused reply message
  m_task_spec,           \* the reused task-spec message
  m_lazy_behavior_list,  \* cached behavior listing
  outq,                  \* the Process's outgoing queue (message names)
  toServo,               \* messages delivered to the servo, unanswered
  sentBehaviorID,        \* behaviorID of the task spec SendWait flushed last, or NoBehavior
  toUser,                \* replies delivered to the console, unread
  keyboard_querry,       \* file-static flag of part_001
  ncurses_active,        \* file-static flag of part_001
  traceEnabled,          \* logger->isTraceEnabled()
  stepResult,            \* what the last Step returned
  events,                \* calls made by the running Step, in order
  swrLog,                \* calls made by the running SendWaitReceive
  handled,               \* what the last HandleMessagePayload did
  consumed,              \* which reply the last ReceiveWait took for which request
  nBuilt,                \* requests built so far
  nRoundTrips,           \* ListBehaviors round trips issued so far
  nEmptyListings,        \* round trips that returned SUCCESS and no behavior
  lastGBL,               \* what the last GetBehaviorList call did
  diag,                  \* the diagnostic the last Step printed on cout
  failures,              \* the commands in which a SendWait / ReceiveWait failed
  ncPc,                  \* position of the running CreateChannel
  ncVariant,             \* "server" (TCPServerNetConfig) or "client"
  ncFrom,                \* from_process
  ncTo,                  \* to_process
  ncPort,                \* the port get_tcp_port returned, 0 before
  ncStatus,              \* cs, the last result of Accept / Connect
  ncCause,               \* what the socket met in that Accept / Connect
  ncStage,               \* the setup step that made CreateChannel throw
  ncCreated,             \* sockets created by new
  ncDeleted,             \* sockets deleted
  ncOpenCalls,           \* calls of Open
  ncBindCalls,           \* calls of BindListen
  ncAttempts,            \* calls of Accept / Connect (counted up to MaxAttempts)
  ncSleptMs,             \* time slept between attempts (counted likewise)
  m_directory_client,    \* 0: null, else the DirectoryCmdClient allocated last
  nInitCalls,            \* calls of Init
  nDirectoryClients,     \* DirectoryCmdClient objects allocated
  nChannels,             \* channels CreateChannel returned to Init
  nSinks,                \* AddSink calls
  nSources,              \* AddSource calls
  nHandlers,             \* CreateHandler calls
  initResult,            \* how the last Init ended
  destroyed,             \* ~UserProcess has run
  chDeletes,             \* deletes of a non-null m_channel
  dcDeletes,             \* deletes of a non-null m_directory_client
  xPc,                   \* position of XmlRpcLoop
  cPc,                   \* position of Cleanup
  xmlrpc_directory,      \* file-static pointer: 0, or the server object
  xAllocated,            \* XMLRPCDirectoryServer objects allocated
  xDeletes,              \* deletes of a non-null xmlrpc_directory
  xExitRequested,        \* GetServer()->exit() has been called
  xDangling,             \* a call was made through xmlrpc_directory after its delete
  ui_to_ctrl_tick_,      \* TaskPostureOTGPlugin: index counter of the ui_to_ctrl buffers
  ui_to_ctrl_data_,      \* the NBUF ui_to_ctrl_s buffers
  ctrl_to_ui_tick_,      \* index counter of the ctrl_to_ui buffers
  tick_,                 \* update() calls counted by the plugin
  cursor,                \* per level: "zero" as constructed, "seeded" from the measured state
  updPc,                 \* position of the running update()
  updLevel,              \* level stepTaskPosture is working on
  updIn,                 \* index of the buffer update() bound as in
  updOk,                 \* what stepTaskPosture returned to the running update()
  commanded_effort_,     \* what the last update() wrote to the joints
  uiPc,                  \* position of the running uiCallback
  uiReq,                 \* the request of the running uiCallback
  uiIn,                  \* index of the buffer uiCallback bound as in
  uiOut,                 \* index of the buffer uiCallback bound as out
  response,              \* the response of the running uiCallback
  uiReturn,              \* what the last uiCallback returned: "none" while one runs
  nUiCalls,              \* uiCallback calls so far
  nGoalSets,             \* per level: valid SET_*_GOAL requests so far
  nSeeds,                \* per level: times the cursor was seeded
  uiWroteReadBuffer,     \* uiCallback wrote the buffer a running update() had bound
  otg_result,            \* what the last cursor->next() of the running update() returned
  wbcPc,                 \* WBCPlugin: position of the running update()
  wbc_ok,                \* what stepTaskPosture returned to the running WBCPlugin::update()
  wbc_commanded_effort_, \* what the last WBCPlugin::update() wrote to the joints
  wbc_tick_              \* WBCPlugin::tick_

uvars == << pc, cinGood, token, bnum, site, m_channel, m_user_request, m_user_reply,
            m_task_spec, m_lazy_behavior_list, outq, toServo, sentBehaviorID, toUser,
            keyboard_querry, ncurses_active, traceEnabled, stepResult,
            events, swrLog, handled, consumed, nBuilt, nRoundTrips,
            nEmptyListings, lastGBL, diag, failures >>

nvars == << ncPc, ncVariant, ncFrom, ncTo, ncPort, ncStatus, ncCause, ncStage,
            ncCreated, ncDeleted, ncOpenCalls, ncBindCalls, ncAttempts,
            ncSleptMs >>

lvars == << m_directory_client, nInitCalls, nDirectoryClients, nChannels, nSinks,
            nSources, nHandlers, initResult, destroyed, chDeletes, dcDeletes,
            xPc, cPc, xmlrpc_directory, xAllocated, xDeletes, xExitRequested,
            xDangling >>

pvars == << ui_to_ctrl_tick_, ui_to_ctrl_data_, ctrl_to_ui_tick_, tick_, cursor,
            updPc, updLevel, updIn, updOk, commanded_effort_, uiPc, uiReq, uiIn,
            uiOut, response, uiReturn, nUiCalls, nGoalSets, nSeeds, uiWroteReadBuffer,
            otg_result >>

wvars == << wbcPc, wbc_ok, wbc_commanded_effort_, wbc_tick_ >>

vars == << uvars, nvars, lvars, pvars, wvars >>


(***************************************************************************)
(* Messages.                                                               *)
(***************************************************************************)
\* a message as the servo receives it: the content of the named buffer at
\* the time SendWait flushes it
WireOf(name, req, ts) ==
  IF name = "m_user_request"
  THEN [ type |-> "USER_REQUEST", requestID |-> req.requestID,
         code |-> req.code, serial |-> req.serial, behaviorID |-> NoBehavior ]
  ELSE [ type |-> "TASK_SPEC", requestID |-> ts.requestID,
         code |-> "NONE", serial |-> 0, behaviorID |-> ts.behaviorID ]

\* the srv:: request builders (get_pos, set_goal, key_press, ...): the
\* request gets its service code and the sender's next requestID; serial
\* numbers the requests of a run
BuildRequest(req, code, n) ==
  [ requestID |-> req.requestID + 1, code |-> code, serial |-> n + 1 ]

\* service code built by each console command
CodeOf(t) ==
  CASE t = "pos"      -> "GET_POS"
    [] t = "endpos"   -> "GET_END_POS"
    [] t = "vel"      -> "GET_VEL"
    [] t = "tau"      -> "GET_TORQUES"
    [] t = "float"    -> "FLOAT"
    [] t = "activate" -> "ACTIVATE"
    [] t = "go"       -> "SET_GOAL"
    [] t = "setgoal"  -> "SET_GOAL"
    [] t = "setgains" -> "SET_GAINS"
    [] t = "r"        -> "TOGGLE_RECORDER"
    [] t = "k"        -> "KEY_PRESS"
    [] OTHER          -> "NONE"

\* the servo's answer to a user request: it echoes the requestID; data
\* requests come back with a matrix, a listing request with the listing
ServoReplyTo(m, status, listing) ==
  [ type |-> "USER_REPLY", requestID |-> m.requestID, nCodes |-> 1,
    code0 |-> status,
    matrix |-> IF m.code \in { "GET_POS", "GET_END_POS", "GET_VEL", "GET_TORQUES" }
               THEN << 1, 2 >> ELSE << 0, 0 >>,
    listing |-> IF m.code = "LIST_BEHAVIORS" THEN listing ELSE << >>,
    re |-> m.serial ]

\* a variant that leaves the reply as it is
ResetReplySkipped(rep) == rep

\* GetReply()->code.SetNElements(0); GetReply()->matrix.SetSize(0, 0);
ResetReply(rep) == [ rep EXCEPT !.nCodes = 0, !.matrix = << 0, 0 >> ]

(***************************************************************************)
(* UserProcess::HandleMessagePayload: what one call does.                  *)
(***************************************************************************)
\* a variant that reports a mismatch at every logging level
HandleMessagePayloadAlways(msg_id, req, rep, trace, nc, kq) ==
  [ id |-> msg_id, expected |-> req.requestID, got |-> rep.requestID,
    unknown |-> msg_id # "USER_REPLY",
    nCodes |-> rep.nCodes,
    readCode0 |-> (msg_id = "USER_REPLY") /\ trace /\ ~(1 < rep.nCodes),
    reported |-> (msg_id = "USER_REPLY") /\ (req.requestID # rep.requestID),
    dumped |-> (msg_id = "USER_REPLY") /\ (~nc) /\ kq,
    ret |-> 0 ]

\* a variant that returns an error for a reply with another requestID
HandleMessagePayloadRejecting(msg_id, req, rep, trace, nc, kq) ==
  [ id |-> msg_id, expected |-> req.requestID, got |-> rep.requestID,
    unknown |-> msg_id # "USER_REPLY",
    nCodes |-> rep.nCodes,
    readCode0 |-> (msg_id = "USER_REPLY") /\ trace /\ ~(1 < rep.nCodes),
    reported |-> (msg_id = "USER_REPLY") /\ trace
                 /\ (req.requestID # rep.requestID),
    dumped |-> (msg_id = "USER_REPLY") /\ (~nc) /\ kq,
    ret |-> IF (msg_id = "USER_REPLY") /\ (req.requestID # rep.requestID)
            THEN -1 ELSE 0 ]

\* a variant without the early return for an unknown message id
HandleMessagePayloadFallingThrough(msg_id, req, rep, trace, nc, kq) ==
  [ id |-> msg_id, expected |-> req.requestID, got |-> rep.requestID,
    unknown |-> msg_id # "USER_REPLY",
    nCodes |-> rep.nCodes,
    readCode0 |-> trace /\ ~(1 < rep.nCodes),
    reported |-> trace /\ (req.requestID # rep.requestID),
    dumped |-> (~nc) /\ kq,
    ret |-> 0 ]

\* expected / got are the two requestIDs at the time of the call; unknown
\* says whether the LOG_TRACE of an unknown message id was reached, reported
\* whether the "requestID mismatch" line was logged, dumped whether the
\* reply was printed; nCodes is the number of status codes of the reply and
\* readCode0 says whether m_user_reply.code[0] was read for the "user_reply
\* status" line, which is the else branch of if (1 < m_user_reply.nCodes);
\* ret is the value returned
HandleMessagePayload(msg_id, req, rep, trace, nc, kq) ==
  [ id |-> msg_id, expected |-> req.requestID, got |-> rep.requestID,
    unknown |-> msg_id # "USER_REPLY",
    nCodes |-> rep.nCodes,
    readCode0 |-> (msg_id = "USER_REPLY") /\ trace /\ ~(1 < rep.nCodes),
    reported |-> (msg_id = "USER_REPLY") /\ trace
                 /\ (req.requestID # rep.requestID),
    dumped |-> (msg_id = "USER_REPLY") /\ (~nc) /\ kq,
    ret |-> 0 ]

(***************************************************************************)
(* Process::SendWait and Process::ReceiveWait.                             *)
(***************************************************************************)
\* the messages a successful SendWait puts on the link, in enqueue order
Flushed(q, req, ts) == [ i \in 1..Len(q) |-> WireOf(q[i], req, ts) ]

CanFlush == Len(toServo) + Len(outq) <= MaxQueue

\* a SendWait that drains the queue
SendWaitOk ==
  /\ CanFlush
  /\ toServo' = toServo \o Flushed(outq, m_user_request, m_task_spec)
  /\ sentBehaviorID' = IF \E i \in 1..Len(outq) : outq[i] = "m_task_spec"
                       THEN m_task_spec.behaviorID ELSE sentBehaviorID
  /\ outq' = << >>

\* a SendWait that runs into its timeout: nothing was flushed
SendWaitFail ==
  /\ toServo' = toServo
  /\ UNCHANGED sentBehaviorID
  /\ outq' = outq

\* a ReceiveWait(10000, 1) that gets its one message: the head of the link
\* is decoded into m_user_reply and dispatched to HandleMessagePayload
ReceiveWaitOk ==
  /\ toUser # << >>
  /\ m_user_reply' = Head(toUser)
  /\ toUser' = Tail(toUser)
  /\ handled' = HandleMessagePayload(Head(toUser).type, m_user_request,
                                     Head(toUser), traceEnabled,
                                     ncurses_active, keyboard_querry)
  /\ consumed' = [ for |-> m_user_request.serial, re |-> Head(toUser).re ]

\* a ReceiveWait that runs into its timeout: nothing arrived
ReceiveWaitFail ==
  /\ toUser = << >>
  /\ UNCHANGED << m_user_reply, toUser, handled, consumed >>

Ev(op, msg) == [ op |-> op, msg |-> msg ]

(***************************************************************************)
(* UserProcess::Step, one console line.  A Step that returns false ends    *)
(* the console's loop.                                                     *)
(***************************************************************************)
\* variables no console command touches directly
NetIdle == UNCHANGED << toServo, sentBehaviorID, toUser, m_user_reply, handled, consumed >>
ListIdle == UNCHANGED << m_lazy_behavior_list, nRoundTrips, nEmptyListings, lastGBL >>

\* a variant that prints nothing for an unknown command
SyntaxDiagSilent(t) == "none"

\* what Step prints for a line it cannot take as a command: no first token,
\* or a token that matches none of the commands
SyntaxDiag(t) ==
  IF t = "" THEN "SYNTAX ERROR reading first token"
            ELSE "SYNTAX ERROR: unknown command"

\* a variant in which a line that is not a command ends the console
SyntaxErrorExits == FALSE

\* the return after the list of known commands
SyntaxErrorReturns == TRUE

\* a variant that lets a number equal to the number of behaviors pass
TooLargeOffByOne(n, list) == Len(list) < n

\* if (nbehaviors <= bnum)
TooLarge(n, list) == Len(list) <= n

\* width of the requestID field of a message (uint8_t)
RequestIDModulus == 256

\* a variant without the wrap of the field
NextRequestIDUnbounded(id) == id + 1

\* ++m_task_spec.requestID
NextRequestID(id) == (id + 1) % RequestIDModulus

\* a variant without the try block of the key-press loop
InKeyLoopNever(t) == FALSE

\* the key-press loop has its own try block around SendWait / ReceiveWait
InKeyLoop(t) == t = "k"

\* a variant in which every exception is swallowed
CatchReturnsTrue(t) == TRUE

\* what Step returns after an exception: the key-press loop's catch leaves
\* the loop and Step returns true; Step's own catch returns false
CatchReturns(t) == InKeyLoop(t)

\* a variant that leaves the flag set when the key-press loop ends
CursesFlagAfterLoopStale == TRUE

\* endwin(); ncurses_active = false; at the end of InteractiveKeyPressLoop
CursesFlagAfterLoop == FALSE

\* Step returns to the prompt with the given value
Return(val) ==
  /\ stepResult' = IF val THEN "true" ELSE "false"
  /\ pc' = IF val THEN "prompt" ELSE "exited"

\* cin.getline fails: end of input, an overlong line, or a stream that has
\* failed before
StepReadFail ==
  /\ pc = "prompt"
  /\ cinGood' = FALSE
  /\ keyboard_querry' = FALSE
  /\ token' = "none"
  /\ events' = << >>
  /\ diag' = "FATAL ERROR reading standard input"
  /\ UNCHANGED failures
  /\ Return(FALSE)
  /\ NetIdle /\ ListIdle
  /\ UNCHANGED << bnum, site, m_channel, m_user_request, m_task_spec, outq,
                  ncurses_active, traceEnabled, swrLog, nBuilt >>
  /\ UNCHANGED << nvars, lvars, pvars, wvars >>

\* a line without a first token, or with an unknown one
StepSyntaxError(t) ==
  /\ pc = "prompt"
  /\ cinGood
  /\ UNCHANGED cinGood
  /\ t \in { "", "foo" }
  /\ keyboard_querry' = TRUE
  /\ token' = t
  /\ events' = << >>
  /\ diag' = SyntaxDiag(t)
  /\ UNCHANGED failures
  /\ Return(SyntaxErrorReturns)
  /\ NetIdle /\ ListIdle
  /\ UNCHANGED << bnum, site, m_channel, m_user_request, m_task_spec, outq,
                  ncurses_active, traceEnabled, swrLog, nBuilt >>
  /\ UNCHANGED << nvars, lvars, pvars, wvars >>

\* pos, endpos, vel, tau, float, activate: build, enqueue, then SendWait
StepSimple(t) ==
  /\ pc = "prompt"
  /\ cinGood
  /\ UNCHANGED cinGood
  /\ t \in SimpleTokens
  /\ nBuilt < MaxRequests
  /\ Len(outq) < MaxQueue
  /\ keyboard_querry' = TRUE
  /\ token' = t
  /\ m_user_request' = BuildRequest(m_user_request, CodeOf(t), nBuilt)
  /\ nBuilt' = nBuilt + 1
  /\ outq' = Append(outq, "m_user_request")
  /\ events' = << Ev("build", "m_user_request"), Ev("enqueue", "m_user_request") >>
  /\ pc' = "sendwait"
  /\ diag' = "none"
  /\ UNCHANGED failures
  /\ NetIdle /\ ListIdle
  /\ UNCHANGED << bnum, site, m_channel, m_task_spec, ncurses_active,
                  traceEnabled, stepResult, swrLog >>
  /\ UNCHANGED << nvars, lvars, pvars, wvars >>

\* go: InteractiveGoalRequest builds the goal unless standard input fails
\* while the six fields are read (the stream then stays failed); Step
\* enqueues m_user_request either way
StepGo(inputOk) ==
  /\ pc = "prompt"
  /\ cinGood
  /\ cinGood' = inputOk
  /\ inputOk => nBuilt < MaxRequests
  /\ Len(outq) < MaxQueue
  /\ keyboard_querry' = TRUE
  /\ token' = "go"
  /\ IF inputOk
     THEN /\ m_user_request' = BuildRequest(m_user_request, CodeOf("go"), nBuilt)
          /\ nBuilt' = nBuilt + 1
          /\ events' = << Ev("build", "m_user_request"),
                          Ev("enqueue", "m_user_request") >>
     ELSE /\ UNCHANGED << m_user_request, nBuilt >>
          /\ events' = << Ev("enqueue", "m_user_request") >>
  /\ outq' = Append(outq, "m_user_request")
  /\ pc' = "sendwait"
  /\ diag' = IF inputOk THEN "none" ELSE "ERROR reading standard input"
  /\ UNCHANGED failures
  /\ NetIdle /\ ListIdle
  /\ UNCHANGED << bnum, site, m_channel, m_task_spec, ncurses_active,
                  traceEnabled, stepResult, swrLog >>
  /\ UNCHANGED << nvars, lvars, pvars, wvars >>

\* setgoal <7 numbers> and setgains <4 numbers>: a line that does not parse
\* is a syntax error, otherwise build, enqueue, then SendWait
StepSetVector(t, parseOk) ==
  /\ pc = "prompt"
  /\ cinGood
  /\ UNCHANGED cinGood
  /\ t \in { "setgoal", "setgains" }
  /\ keyboard_querry' = TRUE
  /\ token' = t
  /\ IF parseOk
     THEN /\ nBuilt < MaxRequests
          /\ Len(outq) < MaxQueue
          /\ m_user_request' = BuildRequest(m_user_request, CodeOf(t), nBuilt)
          /\ nBuilt' = nBuilt + 1
          /\ outq' = Append(outq, "m_user_request")
          /\ events' = << Ev("build", "m_user_request"),
                          Ev("enqueue", "m_user_request") >>
          /\ pc' = "sendwait"
          /\ diag' = "none"
          /\ UNCHANGED stepResult
     ELSE /\ UNCHANGED << m_user_request, nBuilt, outq >>
          /\ events' = << >>
          /\ diag' = "SYNTAX ERROR reading " \o (IF t = "setgoal" THEN "goal" ELSE "gains")
          /\ Return(TRUE)
  /\ UNCHANGED failures
  /\ NetIdle /\ ListIdle
  /\ UNCHANGED << bnum, site, m_channel, m_task_spec, ncurses_active,
                  traceEnabled, swrLog >>
  /\ UNCHANGED << nvars, lvars, pvars, wvars >>

\* r: toggle_recorder builds the request, then SendWait (no EnqueueMessage)
StepR ==
  /\ pc = "prompt"
  /\ cinGood
  /\ UNCHANGED cinGood
  /\ nBuilt < MaxRequests
  /\ keyboard_querry' = TRUE
  /\ token' = "r"
  /\ m_user_request' = BuildRequest(m_user_request, CodeOf("r"), nBuilt)
  /\ nBuilt' = nBuilt + 1
  /\ events' = << Ev("build", "m_user_request") >>
  /\ pc' = "sendwait"
  /\ diag' = "none"
  /\ UNCHANGED failures
  /\ NetIdle /\ ListIdle
  /\ UNCHANGED << bnum, site, m_channel, m_task_spec, outq, ncurses_active,
                  traceEnabled, stepResult, swrLog >>
  /\ UNCHANGED << nvars, lvars, pvars, wvars >>

\* b?: the for statement calls GetBehaviorList() for begin() first
StepBehaviorQuery ==
  /\ pc = "prompt"
  /\ cinGood
  /\ UNCHANGED cinGood
  /\ (m_lazy_behavior_list = << >>) => nBuilt + 2 <= MaxRequests
  /\ Len(outq) < MaxQueue
  /\ keyboard_querry' = TRUE
  /\ token' = "b?"
  /\ site' = "bq_begin"
  /\ events' = << >>
  /\ pc' = "gbl"
  /\ diag' = "none"
  /\ UNCHANGED failures
  /\ NetIdle /\ ListIdle
  /\ UNCHANGED << bnum, m_channel, m_user_request, m_task_spec, outq,
                  ncurses_active, traceEnabled, stepResult, swrLog, nBuilt >>
  /\ UNCHANGED << nvars, lvars, pvars, wvars >>

\* b <N> / B <N>: a missing or negative number ends the command, otherwise
\* GetBehaviorList() is called for the number of behaviors
StepBehavior(t, parseOk, n) ==
  /\ pc = "prompt"
  /\ cinGood
  /\ UNCHANGED cinGood
  /\ t \in { "b", "B" }
  /\ n \in BehaviorNumbers
  /\ keyboard_querry' = TRUE
  /\ token' = t
  /\ events' = << >>
  /\ IF parseOk /\ n >= 0
     THEN /\ (m_lazy_behavior_list = << >>) => nBuilt < MaxRequests
          /\ Len(outq) < MaxQueue
          /\ m_task_spec.requestID < MaxTaskSpecs
          /\ bnum' = n
          /\ site' = "b"
          /\ pc' = "gbl"
          /\ diag' = "none"
          /\ UNCHANGED stepResult
     ELSE /\ UNCHANGED << bnum, site >>
          /\ diag' = IF parseOk THEN "ERROR behavior number is negative"
                              ELSE "SYNTAX ERROR reading behavior number"
          /\ Return(TRUE)
  /\ UNCHANGED failures
  /\ NetIdle /\ ListIdle
  /\ UNCHANGED << m_channel, m_user_request, m_task_spec, outq,
                  ncurses_active, traceEnabled, swrLog, nBuilt >>
  /\ UNCHANGED << nvars, lvars, pvars, wvars >>

\* k: InteractiveKeyPressLoop; without curses, or when the title cannot be
\* drawn, the loop is not entered and Step returns true
StepKeyLoop(entered) ==
  /\ pc = "prompt"
  /\ cinGood
  /\ UNCHANGED cinGood
  /\ keyboard_querry' = TRUE
  /\ token' = "k"
  /\ events' = << >>
  /\ IF entered
     THEN /\ ncurses_active' = TRUE
          /\ pc' = "key_getch"
          /\ UNCHANGED stepResult
     ELSE /\ ncurses_active' = CursesFlagAfterLoop
          /\ Return(TRUE)
  /\ diag' = "none"
  /\ UNCHANGED failures
  /\ NetIdle /\ ListIdle
  /\ UNCHANGED << bnum, site, m_channel, m_user_request, m_task_spec, outq,
                  traceEnabled, swrLog, nBuilt >>
  /\ UNCHANGED << nvars, lvars, pvars, wvars >>

(***************************************************************************)
(* The exception handlers: Step's catch returns false; the key-press       *)
(* loop's catch leaves the loop, and Step then returns true.               *)
(***************************************************************************)
Caught ==
  /\ failures' = Append(failures, token)
  /\ IF InKeyLoop(token)
     THEN /\ ncurses_active' = CursesFlagAfterLoop
          /\ UNCHANGED diag
     ELSE /\ UNCHANGED ncurses_active
          /\ diag' = "EXCEPTION"
  /\ Return(CatchReturns(token))

\* SendWait(10000) of a console command or of the key-press loop
StepSendWait(ok) ==
  /\ pc = "sendwait"
  /\ events' = Append(events, Ev("sendwait", "none"))
  /\ IF ok
     THEN /\ SendWaitOk
          /\ pc' = "recvwait"
          /\ UNCHANGED << stepResult, ncurses_active, diag, failures >>
     ELSE /\ SendWaitFail
          /\ Caught
  /\ ListIdle
  /\ UNCHANGED << cinGood, token, bnum, site, m_channel, m_user_request, m_user_reply,
                  m_task_spec, toUser, keyboard_querry, traceEnabled, swrLog,
                  handled, consumed, nBuilt >>
  /\ UNCHANGED << nvars, lvars, pvars, wvars >>

\* ReceiveWait(10000, 1) of a console command or of the key-press loop; in
\* the loop the status line is drawn next, and a failing mvaddstr or refresh
\* leaves the loop
StepReceiveWait(ok, drawn) ==
  /\ pc = "recvwait"
  /\ events' = Append(events, Ev("recvwait", "none"))
  /\ IF ok
     THEN /\ ReceiveWaitOk
          /\ UNCHANGED << diag, failures >>
          /\ IF token = "k" /\ drawn
             THEN /\ pc' = "key_getch"
                  /\ UNCHANGED << stepResult, ncurses_active >>
             ELSE /\ ncurses_active' = IF token = "k" THEN CursesFlagAfterLoop
                                                          ELSE ncurses_active
                  /\ Return(TRUE)
     ELSE /\ ReceiveWaitFail
          /\ Caught
  /\ ListIdle
  /\ UNCHANGED << cinGood, token, bnum, site, m_channel, m_user_request, m_task_spec,
                  outq, toServo, sentBehaviorID, keyboard_querry, traceEnabled, swrLog, nBuilt >>
  /\ UNCHANGED << nvars, lvars, pvars, wvars >>

\* 'q' or 'Q' in the key-press loop
KeyQuit ==
  /\ pc = "key_getch"
  /\ ncurses_active' = CursesFlagAfterLoop
  /\ Return(TRUE)
  /\ NetIdle /\ ListIdle
  /\ UNCHANGED << cinGood, token, bnum, site, m_channel, m_user_request, m_task_spec,
                  outq, keyboard_querry, traceEnabled, events, swrLog, nBuilt,
                  diag, failures >>
  /\ UNCHANGED << nvars, lvars, pvars, wvars >>

\* any other key: key_press builds the request, which is enqueued
KeyPress ==
  /\ pc = "key_getch"
  /\ nBuilt < MaxRequests
  /\ Len(outq) < MaxQueue
  /\ m_user_request' = BuildRequest(m_user_request, CodeOf("k"), nBuilt)
  /\ nBuilt' = nBuilt + 1
  /\ outq' = Append(outq, "m_user_request")
  /\ events' = << Ev("build", "m_user_request"), Ev("enqueue", "m_user_request") >>
  /\ pc' = "sendwait"
  /\ NetIdle /\ ListIdle
  /\ UNCHANGED << cinGood, token, bnum, site, m_channel, m_task_spec, keyboard_querry,
                  ncurses_active, traceEnabled, stepResult, swrLog, diag, failures >>
  /\ UNCHANGED << nvars, lvars, pvars, wvars >>

(***************************************************************************)
(* UserProcess::GetBehaviorList, DirectoryCmdClient::ListBehaviors and     *)
(* MyServiceTransaction::SendWaitReceive.                                  *)
(***************************************************************************)
\* a variant that fetches on every call
NeedsFetchAlways(list) == TRUE

\* if (m_lazy_behavior_list.empty())
NeedsFetch(list) == list = << >>

\* a variant that ignores the status
GBLThrowsNever(stat) == FALSE

\* if (srv::SUCCESS != stat) throw
GBLThrows(stat) == stat # "SUCCESS"

\* a variant that clears the reply after the reply has been received
SwrOrderResetLast == << "enqueue", "sendwait", "recvwait", "reset" >>

\* the statements of SendWaitReceive, in program order
SwrOrder == << "enqueue", "sendwait", "reset", "recvwait" >>

\* the statement SendWaitReceive executes next
SwrStmt ==
  IF Len(swrLog) < Len(SwrOrder) THEN SwrOrder[Len(swrLog) + 1] ELSE "return"

\* what the caller of GetBehaviorList does with the listing it got:
\*   b? calls GetBehaviorList() a second time for end(), then prints;
\*   b / B checks the number, skips a lowercase repeat, and otherwise
\*   bumps the task spec, enqueues it and goes on to SendWait
AfterGBL(list) ==
  CASE site = "bq_begin" ->
         /\ site' = "bq_end"
         /\ pc' = "gbl"
         /\ UNCHANGED << stepResult, m_task_spec, outq, events, diag >>
    [] site = "bq_end" ->
         /\ site' = "none"
         /\ Return(TRUE)
         /\ UNCHANGED << m_task_spec, outq, events, diag >>
    [] OTHER ->
         /\ site' = "none"
         /\ IF TooLarge(bnum, list)
            THEN /\ diag' = "ERROR behavior number is too large"
                 /\ Return(TRUE)
                 /\ UNCHANGED << m_task_spec, outq, events >>
            ELSE IF token = "b" /\ bnum = m_task_spec.behaviorID
            THEN /\ diag' = "already running behavior"
                 /\ Return(TRUE)
                 /\ UNCHANGED << m_task_spec, outq, events >>
            ELSE /\ m_task_spec' = [ requestID |-> NextRequestID(m_task_spec.requestID),
                                     behaviorID |-> bnum ]
                 /\ outq' = Append(outq, "m_task_spec")
                 /\ events' = events \o << Ev("build", "m_task_spec"),
                                           Ev("enqueue", "m_task_spec") >>
                 /\ pc' = "tsend"
                 /\ UNCHANGED << stepResult, diag >>

\* GetBehaviorList with a cached listing: no round trip
GBLCached ==
  /\ pc = "gbl"
  /\ ~NeedsFetch(m_lazy_behavior_list)
  /\ lastGBL' = [ emptyBefore |-> m_lazy_behavior_list = << >>,
                  roundTrip |-> FALSE, stat |-> "none", threw |-> FALSE ]
  /\ AfterGBL(m_lazy_behavior_list)
  /\ NetIdle
  /\ UNCHANGED << cinGood, token, bnum, m_channel, m_user_request,
                  m_lazy_behavior_list, keyboard_querry, ncurses_active,
                  traceEnabled, swrLog, nBuilt, nRoundTrips, nEmptyListings,
                  failures >>
  /\ UNCHANGED << nvars, lvars, pvars, wvars >>

\* GetBehaviorList without one: ListBehaviors builds the listing request in
\* the transaction's request buffer and calls SendWaitReceive
GBLFetch ==
  /\ pc = "gbl"
  /\ NeedsFetch(m_lazy_behavior_list)
  /\ nBuilt < MaxRequests
  /\ lastGBL' = [ emptyBefore |-> m_lazy_behavior_list = << >>,
                  roundTrip |-> TRUE, stat |-> "none", threw |-> FALSE ]
  /\ nRoundTrips' = nRoundTrips + 1
  /\ m_user_request' = BuildRequest(m_user_request, "LIST_BEHAVIORS", nBuilt)
  /\ nBuilt' = nBuilt + 1
  /\ events' = Append(events, Ev("build", "m_user_request"))
  /\ swrLog' = << >>
  /\ pc' = "swr"
  /\ NetIdle
  /\ UNCHANGED << cinGood, token, bnum, site, m_channel, m_task_spec,
                  m_lazy_behavior_list, outq, keyboard_querry, ncurses_active,
                  traceEnabled, stepResult, nEmptyListings, diag, failures >>
  /\ UNCHANGED << nvars, lvars, pvars, wvars >>

\* an exception leaves SendWaitReceive, ListBehaviors and GetBehaviorList
\* and is caught by Step
SwrThrows ==
  /\ lastGBL' = [ lastGBL EXCEPT !.threw = TRUE ]
  /\ failures' = Append(failures, token)
  /\ diag' = "EXCEPTION"
  /\ Return(CatchReturns(token))

\* m_user->EnqueueMessage(m_user->m_channel, GetRequest(), false, false);
SwrEnqueue ==
  /\ pc = "swr" /\ SwrStmt = "enqueue"
  /\ Len(outq) < MaxQueue
  /\ outq' = Append(outq, "m_user_request")
  /\ swrLog' = Append(swrLog, "enqueue")
  /\ events' = Append(events, Ev("enqueue", "m_user_request"))
  /\ NetIdle /\ ListIdle
  /\ UNCHANGED << cinGood, pc, token, bnum, site, m_channel, m_user_request,
                  m_task_spec, keyboard_querry, ncurses_active, traceEnabled,
                  stepResult, nBuilt, diag, failures >>
  /\ UNCHANGED << nvars, lvars, pvars, wvars >>

\* m_user->SendWait(10000);
SwrSendWait(ok) ==
  /\ pc = "swr" /\ SwrStmt = "sendwait"
  /\ swrLog' = Append(swrLog, "sendwait")
  /\ events' = Append(events, Ev("sendwait", "none"))
  /\ IF ok
     THEN /\ SendWaitOk
          /\ UNCHANGED << pc, stepResult, lastGBL, diag, failures >>
     ELSE /\ SendWaitFail
          /\ SwrThrows
  /\ UNCHANGED << cinGood, token, bnum, site, m_channel, m_user_request, m_user_reply,
                  m_task_spec, m_lazy_behavior_list, toUser, keyboard_querry,
                  ncurses_active, traceEnabled, handled, consumed, nBuilt,
                  nRoundTrips, nEmptyListings >>
  /\ UNCHANGED << nvars, lvars, pvars, wvars >>

\* GetReply()->code.SetNElements(0); GetReply()->matrix.SetSize(0, 0);
SwrReset ==
  /\ pc = "swr" /\ SwrStmt = "reset"
  /\ m_user_reply' = ResetReply(m_user_reply)
  /\ swrLog' = Append(swrLog, "reset")
  /\ events' = Append(events, Ev("reset", "m_user_reply"))
  /\ ListIdle
  /\ UNCHANGED << cinGood, pc, token, bnum, site, m_channel, m_user_request,
                  m_task_spec, outq, toServo, sentBehaviorID, toUser, keyboard_querry,
                  ncurses_active, traceEnabled, stepResult, handled, consumed,
                  nBuilt, diag, failures >>
  /\ UNCHANGED << nvars, lvars, pvars, wvars >>

\* m_user->ReceiveWait(10000, 1);
SwrReceiveWait(ok) ==
  /\ pc = "swr" /\ SwrStmt = "recvwait"
  /\ swrLog' = Append(swrLog, "recvwait")
  /\ events' = Append(events, Ev("recvwait", "none"))
  /\ IF ok
     THEN /\ ReceiveWaitOk
          /\ UNCHANGED << pc, stepResult, lastGBL, diag, failures >>
     ELSE /\ ReceiveWaitFail
          /\ SwrThrows
  /\ UNCHANGED << cinGood, token, bnum, site, m_channel, m_user_request, m_task_spec,
                  m_lazy_behavior_list, outq, toServo, sentBehaviorID, keyboard_querry,
                  ncurses_active, traceEnabled, nBuilt, nRoundTrips,
                  nEmptyListings >>
  /\ UNCHANGED << nvars, lvars, pvars, wvars >>

\* the status ListBehaviors reads from the reply
ListStatus(rep) == IF rep.nCodes >= 1 THEN rep.code0 ELSE "INVALID_REPLY"

\* SendWaitReceive returns: ListBehaviors reads status and listing from the
\* reply, GetBehaviorList throws on a status other than SUCCESS and
\* otherwise hands the listing to its caller
SwrReturn ==
  /\ pc = "swr" /\ SwrStmt = "return"
  /\ LET stat == ListStatus(m_user_reply)
         list == IF stat = "SUCCESS" THEN m_user_reply.listing
                                     ELSE m_lazy_behavior_list
     IN /\ m_lazy_behavior_list' = list
        /\ nEmptyListings' = IF stat = "SUCCESS" /\ list = << >>
                             THEN nEmptyListings + 1 ELSE nEmptyListings
        /\ IF GBLThrows(stat)
           THEN /\ lastGBL' = [ lastGBL EXCEPT !.stat = stat, !.threw = TRUE ]
                /\ diag' = "EXCEPTION"
                /\ Return(CatchReturns(token))
                /\ UNCHANGED << site, m_task_spec, outq, events >>
           ELSE /\ lastGBL' = [ lastGBL EXCEPT !.stat = stat ]
                /\ AfterGBL(list)
  /\ UNCHANGED failures
  /\ NetIdle
  /\ UNCHANGED << cinGood, token, bnum, m_channel, m_user_request, keyboard_querry,
                  ncurses_active, traceEnabled, swrLog, nBuilt, nRoundTrips >>
  /\ UNCHANGED << nvars, lvars, pvars, wvars >>

\* a variant that waits for a reply to the task spec
TaskSpecAwaitedAlways == TRUE

\* "do NOT ReceiveWait(), because task specs are fire-and-forget"
TaskSpecAwaited == FALSE

\* SendWait(10000) of the task spec; no ReceiveWait follows
TaskSendWait(ok) ==
  /\ pc = "tsend"
  /\ events' = Append(events, Ev("sendwait", "none"))
  /\ IF ok
     THEN /\ SendWaitOk
          /\ IF TaskSpecAwaited
             THEN /\ pc' = "recvwait"
                  /\ UNCHANGED stepResult
             ELSE Return(TRUE)
          /\ UNCHANGED << diag, failures, ncurses_active >>
     ELSE /\ SendWaitFail
          /\ Caught
  /\ ListIdle
  /\ UNCHANGED << cinGood, token, bnum, site, m_channel, m_user_request, m_user_reply,
                  m_task_spec, toUser, keyboard_querry,
                  traceEnabled, swrLog, handled, consumed, nBuilt >>
  /\ UNCHANGED << nvars, lvars, pvars, wvars >>

(***************************************************************************)
(* The servo process at the other end of the channel.                      *)
(***************************************************************************)
\* the servo takes the next message: a user request is answered, a task
\* spec is not
ServoHandle ==
  /\ toServo # << >>
  /\ toServo' = Tail(toServo)
  /\ UNCHANGED sentBehaviorID
  /\ IF Head(toServo).type = "USER_REQUEST"
     THEN /\ Len(toUser) < MaxQueue
          /\ \E status \in SrvResults, listing \in Listings :
               toUser' = Append(toUser, ServoReplyTo(Head(toServo), status, listing))
     ELSE UNCHANGED toUser
  /\ ListIdle
  /\ UNCHANGED << cinGood, pc, token, bnum, site, m_channel, m_user_request,
                  m_user_reply, m_task_spec, outq, keyboard_querry,
                  ncurses_active, traceEnabled, stepResult, events, swrLog,
                  handled, consumed, nBuilt, diag, failures >>
  /\ UNCHANGED << nvars, lvars, pvars, wvars >>

\* no message has been dispatched yet
NotHandled == [ id |-> "none", expected |-> 0, got |-> 0, unknown |-> FALSE,
                nCodes |-> 0, readCode0 |-> FALSE,
                reported |-> FALSE, dumped |-> FALSE, ret |-> 0 ]

(***************************************************************************)
(* The console after construction and Init().                              *)
(***************************************************************************)
InitUser ==
  /\ pc = "prompt"
  /\ cinGood = TRUE
  /\ token = "none"
  /\ bnum = 0
  /\ site = "none"
  /\ m_channel = 1
  /\ m_user_request = [ requestID |-> 0, code |-> "NONE", serial |-> 0 ]
  /\ m_user_reply = [ type |-> "USER_REPLY", requestID |-> 0, nCodes |-> 0,
                      code0 |-> "SUCCESS", matrix |-> << 0, 0 >>,
                      listing |-> << >>, re |-> 0 ]
  /\ m_task_spec = [ requestID |-> 0, behaviorID |-> NoBehavior ]
  /\ m_lazy_behavior_list = << >>
  /\ outq = << >>
  /\ toServo = << >>
  /\ sentBehaviorID = NoBehavior
  /\ toUser = << >>
  /\ keyboard_querry = FALSE
  /\ ncurses_active = FALSE
  /\ traceEnabled \in BOOLEAN
  /\ stepResult = "none"
  /\ events = << >>
  /\ swrLog = << >>
  /\ handled = NotHandled
  /\ consumed = [ for |-> 0, re |-> 0 ]
  /\ nBuilt = 0
  /\ nRoundTrips = 0
  /\ nEmptyListings = 0
  /\ lastGBL = [ emptyBefore |-> FALSE, roundTrip |-> FALSE, stat |-> "none",
                 threw |-> FALSE ]
  /\ diag = "none"
  /\ failures = << >>

(***************************************************************************)
(* wbcnet::TCPServerNetConfig::CreateChannel and                           *)
(* wbcnet::TCPClientNetConfig::CreateChannel.                              *)
(***************************************************************************)
\* NetConfig::process_t
ProcessT == { "SERVO", "MODEL", "USER", "MOTOR" }

\* wbcnet::com_status; COM_NOT_OPEN stands for every enumerator the loops
\* of CreateChannel do not name
ComStatus == { "COM_OK", "COM_TRY_AGAIN", "COM_OTHER_ERROR", "COM_NOT_OPEN" }

\* usleep(250000) between two attempts, in milliseconds
PollIntervalMs == 250

\* what a socket can meet in Accept (server) or Connect (client)
Causes(variant) ==
  IF variant = "server"
  THEN { "ready", "pending", "failure", "not_open" }
  ELSE { "ready", "pending", "refused", "failure", "not_open" }

\* SoServer::Accept / SoClient::Connect: no peer yet (EAGAIN, EINPROGRESS)
\* is COM_TRY_AGAIN; a refused connection and every other failure of the
\* system call is the catch-all COM_OTHER_ERROR
StatusOf(cause) ==
  CASE cause = "ready"    -> "COM_OK"
    [] cause = "pending"  -> "COM_TRY_AGAIN"
    [] cause = "refused"  -> "COM_OTHER_ERROR"
    [] cause = "failure"  -> "COM_OTHER_ERROR"
    [] OTHER              -> "COM_NOT_OPEN"

\* a variant with the USER -> SERVO port copied from the MODEL case
get_tcp_port_copied(from, to) ==
  CASE from = "SERVO" /\ to = "MODEL" -> [ throws |-> FALSE, port |-> 9999 ]
    [] from = "SERVO" /\ to = "USER"  -> [ throws |-> FALSE, port |-> 8888 ]
    [] from = "MODEL" /\ to = "SERVO" -> [ throws |-> FALSE, port |-> 9999 ]
    [] from = "USER"  /\ to = "SERVO" -> [ throws |-> FALSE, port |-> 9999 ]
    [] OTHER                          -> [ throws |-> TRUE, port |-> 0 ]

\* get_tcp_port: the port of a pair, or a runtime_error
get_tcp_port(from, to) ==
  CASE from = "SERVO" /\ to = "MODEL" -> [ throws |-> FALSE, port |-> 9999 ]
    [] from = "SERVO" /\ to = "USER"  -> [ throws |-> FALSE, port |-> 8888 ]
    [] from = "MODEL" /\ to = "SERVO" -> [ throws |-> FALSE, port |-> 9999 ]
    [] from = "USER"  /\ to = "SERVO" -> [ throws |-> FALSE, port |-> 8888 ]
    [] OTHER                          -> [ throws |-> TRUE, port |-> 0 ]

\* a variant of the loop conditions that gives up after two attempts
RetriesAtMostTwice(variant, cs, attempts) ==
  /\ attempts < 2
  /\ IF variant = "server"
     THEN cs = "COM_TRY_AGAIN"
     ELSE cs = "COM_TRY_AGAIN" \/ cs = "COM_OTHER_ERROR"

\* a variant of the client's loop condition that retries on try-again only
RetriesOnTryAgainOnly(variant, cs, attempts) == cs = "COM_TRY_AGAIN"

\* while (COM_TRY_AGAIN == cs)                              (server)
\* while ((COM_TRY_AGAIN == cs) || (COM_OTHER_ERROR == cs)) (client)
Retries(variant, cs, attempts) ==
  IF variant = "server"
  THEN cs = "COM_TRY_AGAIN"
  ELSE cs = "COM_TRY_AGAIN" \/ cs = "COM_OTHER_ERROR"

\* a variant that forgets the delete when BindListen fails
SetupFailsLeakingBind(stage) ==
  /\ ncDeleted' = IF stage = "bind" THEN ncDeleted ELSE ncDeleted + 1
  /\ ncStage' = stage
  /\ ncPc' = "thrown"

\* delete sos; throw runtime_error(...);
SetupFails(stage) ==
  /\ ncDeleted' = ncDeleted + 1
  /\ ncStage' = stage
  /\ ncPc' = "thrown"

CountUp(n, by, max) == IF n + by > max THEN max ELSE n + by

\* CreateChannel is called: get_tcp_port either throws or gives the port,
\* and the socket object is created
CreateChannelEnter(variant, from, to) ==
  /\ ncPc = "idle"
  /\ ncVariant' = variant
  /\ ncFrom' = from
  /\ ncTo' = to
  /\ IF get_tcp_port(from, to).throws
     THEN /\ ncPc' = "thrown"
          /\ ncStage' = "port"
          /\ UNCHANGED << ncPort, ncCreated >>
     ELSE /\ ncPort' = get_tcp_port(from, to).port
          /\ ncCreated' = ncCreated + 1
          /\ ncPc' = "open"
          /\ UNCHANGED ncStage
  /\ UNCHANGED << ncStatus, ncCause, ncDeleted, ncOpenCalls, ncBindCalls,
                  ncAttempts, ncSleptMs >>
  /\ UNCHANGED << uvars, lvars, pvars, wvars >>

\* Open(port, is_nonblocking, ip)
CreateChannelOpen(ok) ==
  /\ ncPc = "open"
  /\ ncOpenCalls' = ncOpenCalls + 1
  /\ IF ok
     THEN /\ ncPc' = IF ncVariant = "server" THEN "bind" ELSE "attempt"
          /\ UNCHANGED << ncDeleted, ncStage >>
     ELSE SetupFails("open")
  /\ UNCHANGED << ncVariant, ncFrom, ncTo, ncPort, ncStatus, ncCause,
                  ncCreated, ncBindCalls, ncAttempts, ncSleptMs >>
  /\ UNCHANGED << uvars, lvars, pvars, wvars >>

\* BindListen(1), server only
CreateChannelBindListen(ok) ==
  /\ ncPc = "bind"
  /\ ncBindCalls' = ncBindCalls + 1
  /\ IF ok
     THEN /\ ncPc' = "attempt"
          /\ UNCHANGED << ncDeleted, ncStage >>
     ELSE SetupFails("bind")
  /\ UNCHANGED << ncVariant, ncFrom, ncTo, ncPort, ncStatus, ncCause,
                  ncCreated, ncOpenCalls, ncAttempts, ncSleptMs >>
  /\ UNCHANGED << uvars, lvars, pvars, wvars >>

\* cs = Accept() / cs = Connect(), and what the loop and the check after it
\* make of cs: sleep and try again, return the socket, or delete and throw
CreateChannelAttempt(cause) ==
  /\ ncPc = "attempt"
  /\ cause \in Causes(ncVariant)
  /\ ncCause' = cause
  /\ ncStatus' = StatusOf(cause)
  /\ ncAttempts' = CountUp(ncAttempts, 1, MaxAttempts)
  /\ IF Retries(ncVariant, StatusOf(cause), ncAttempts + 1)
     THEN /\ ncPc' = "sleep"
          /\ UNCHANGED << ncDeleted, ncStage >>
     ELSE IF StatusOf(cause) = "COM_OK"
          THEN /\ ncPc' = "returned"
               /\ UNCHANGED << ncDeleted, ncStage >>
          ELSE SetupFails("attempt")
  /\ UNCHANGED << ncVariant, ncFrom, ncTo, ncPort, ncCreated, ncOpenCalls,
                  ncBindCalls, ncSleptMs >>
  /\ UNCHANGED << uvars, lvars, pvars, wvars >>

\* usleep(250000)
CreateChannelSleep ==
  /\ ncPc = "sleep"
  /\ ncSleptMs' = CountUp(ncSleptMs, PollIntervalMs, PollIntervalMs * MaxAttempts)
  /\ ncPc' = "attempt"
  /\ UNCHANGED << ncVariant, ncFrom, ncTo, ncPort, ncStatus, ncCause, ncStage,
                  ncCreated, ncDeleted, ncOpenCalls, ncBindCalls, ncAttempts >>
  /\ UNCHANGED << uvars, lvars, pvars, wvars >>

InitNet ==
  /\ ncPc = "idle"
  /\ ncVariant = "none"
  /\ ncFrom = "none"
  /\ ncTo = "none"
  /\ ncPort = 0
  /\ ncStatus = "none"
  /\ ncCause = "none"
  /\ ncStage = "none"
  /\ ncCreated = 0
  /\ ncDeleted = 0
  /\ ncOpenCalls = 0
  /\ ncBindCalls = 0
  /\ ncAttempts = 0
  /\ ncSleptMs = 0

(***************************************************************************)
(* TaskPostureOTGPlugin: the two ui_to_ctrl buffers, uiCallback (the ROS   *)
(* service thread) and update() (the realtime thread).                     *)
(***************************************************************************)
\* static size_t const NBUF(2);
NBUF == 2

\* enum { TASK, POSTURE, NLEVELS }
Levels == { "TASK", "POSTURE" }

\* clean(tick): index of the buffer that is read
clean(tick) == tick % NBUF

\* dirty(tick): index of the buffer that is written; size_t arithmetic wraps,
\* and as NBUF divides the modulus the result for tick = 0 is NBUF - 1
dirty(tick) == (tick - 1) % NBUF

\* the request modes of TaskPostureUI
SetModes == { "SET_CONTROL_POINT", "SET_TASK_GOAL", "SET_TASK_KP", "SET_TASK_KD",
              "SET_POSTURE_GOAL", "SET_POSTURE_KP", "SET_POSTURE_KD" }
GetModes == { "GET_CONTROL_POINT", "GET_TASK_GOAL", "GET_TASK_KP", "GET_TASK_KD",
              "GET_POSTURE_GOAL", "GET_POSTURE_KP", "GET_POSTURE_KD" }
Modes == SetModes \cup GetModes \cup { "INVALID" }

\* the level a mode addresses
ModeLevel(mode) ==
  IF mode \in { "SET_TASK_GOAL", "SET_TASK_KP", "SET_TASK_KD",
                "GET_TASK_GOAL", "GET_TASK_KP", "GET_TASK_KD" }
  THEN "TASK" ELSE "POSTURE"

\* the field a mode addresses
ModeField(mode) ==
  IF mode \in { "SET_CONTROL_POINT", "GET_CONTROL_POINT" } THEN "control_point"
  ELSE IF mode \in { "SET_TASK_GOAL", "SET_POSTURE_GOAL",
                     "GET_TASK_GOAL", "GET_POSTURE_GOAL" } THEN "goal"
  ELSE IF mode \in { "SET_TASK_KP", "SET_POSTURE_KP",
                     "GET_TASK_KP", "GET_POSTURE_KP" } THEN "kp"
  ELSE "kd"

\* the vectors a request can carry: value stands for the whole vector;
\* size is "empty", "right" (3 or ndof_ entries) or "wrong"
ParamValues == { 1, 2 }
Requests ==
  { [ mode |-> m, size |-> "right", value |-> v ] : m \in SetModes, v \in ParamValues }
  \cup { [ mode |-> m, size |-> z, value |-> 1 ] :
           m \in SetModes, z \in { "empty", "wrong" } }
  \cup { [ mode |-> m, size |-> "empty", value |-> 1 ] :
           m \in GetModes \cup { "INVALID" } }

\* errstr of a SET_* whose value has the wrong dimension
DimensionError(mode) ==
  IF ModeField(mode) = "control_point" THEN "invalid control point dimension"
  ELSE IF ModeLevel(mode) = "TASK"
       THEN IF ModeField(mode) = "goal" THEN "invalid task goal dimension"
            ELSE IF ModeField(mode) = "kp" THEN "invalid task kp dimension"
            ELSE "invalid task kd dimension"
       ELSE IF ModeField(mode) = "goal" THEN "invalid posture goal dimension"
            ELSE IF ModeField(mode) = "kp" THEN "invalid posture kp dimension"
            ELSE "invalid posture kd dimension"

\* a variant that answers every GET_* with the control point
FieldOfControlPoint(buf, mode) == buf.control_point

\* the value of the field a mode addresses in a buffer
FieldOf(buf, mode) ==
  IF ModeField(mode) = "control_point" THEN buf.control_point
  ELSE buf.level[ModeLevel(mode)][ModeField(mode)]

\* a variant that converts the value into no field
WithFieldDropped(buf, mode, v) == buf

\* the buffer with the field a SET_* mode addresses converted from the
\* request; a goal also raises goal_changed
WithField(buf, mode, v) ==
  IF ModeField(mode) = "control_point"
  THEN [ buf EXCEPT !.control_point = v ]
  ELSE IF ModeField(mode) = "goal"
       THEN [ buf EXCEPT !.level[ModeLevel(mode)].goal = v,
                         !.level[ModeLevel(mode)].goal_changed = TRUE ]
       ELSE [ buf EXCEPT !.level[ModeLevel(mode)][ModeField(mode)] = v ]

\* the locals of uiCallback while no call is running
NoRequest == [ mode |-> "INVALID", size |-> "empty", value |-> 1 ]
NoResponse == [ ok |-> TRUE, errstr |-> "", value |-> 0 ]

\* the plugin after its constructor and init(): both buffers hold the
\* default parameters (0 stands for them) with goal_changed raised on both
\* levels; maxvel, maxacc and end_effector are never changed after init()
\* and are left out
InitPlugin ==
  /\ ui_to_ctrl_tick_ = 1
  /\ ctrl_to_ui_tick_ = 1
  /\ tick_ = 0
  /\ ui_to_ctrl_data_ =
       [ ii \in 0 .. NBUF - 1 |->
           [ control_point |-> 0,
             level |-> [ jj \in Levels |->
                           [ goal |-> 0, kp |-> 0, kd |-> 0,
                             goal_changed |-> TRUE ] ] ] ]
  /\ cursor = [ jj \in Levels |-> "zero" ]
  /\ updPc = "idle"
  /\ updLevel = "TASK"
  /\ updIn = 0
  /\ updOk = "none"
  /\ commanded_effort_ = "none"
  /\ uiPc = "idle"
  /\ uiReq = NoRequest
  /\ uiIn = 0
  /\ uiOut = 0
  /\ response = NoResponse
  /\ uiReturn = "none"
  /\ nUiCalls = 0
  /\ nGoalSets = [ jj \in Levels |-> 0 ]
  /\ nSeeds = [ jj \in Levels |-> 0 ]
  /\ uiWroteReadBuffer = FALSE
  /\ otg_result = "none"

\* what the ROS service thread leaves alone
UiFrame ==
  /\ UNCHANGED << ctrl_to_ui_tick_, tick_, cursor, updPc, updLevel, updIn, updOk,
                  commanded_effort_, nSeeds, otg_result >>
  /\ UNCHANGED << uvars, nvars, lvars, wvars >>

\* what the realtime thread leaves alone
UpdateFrame ==
  /\ UNCHANGED << ui_to_ctrl_tick_, uiPc, uiReq, uiIn, uiOut, response, uiReturn, nUiCalls,
                  nGoalSets, uiWroteReadBuffer >>
  /\ UNCHANGED << uvars, nvars, lvars, wvars >>

\* update() is running and has bound buffer ii as its input
UpdateReads(ii) == updPc # "idle" /\ updIn = ii

\* uiCallback up to the switch: response.ok = true; a SET_* binds in and out
\* and copies in to out, a GET_* reads the clean buffer, every other mode
\* is refused
UiBegin(req) ==
  /\ uiPc = "idle"
  /\ nUiCalls < MaxUiCalls
  /\ nUiCalls' = nUiCalls + 1
  /\ uiReq' = req
  /\ uiReturn' = "none"
  /\ IF req.mode \in SetModes
     THEN /\ uiIn' = clean(ui_to_ctrl_tick_)
          /\ uiOut' = dirty(ui_to_ctrl_tick_)
          /\ ui_to_ctrl_data_' =
               [ ui_to_ctrl_data_ EXCEPT ![dirty(ui_to_ctrl_tick_)] =
                                            ui_to_ctrl_data_[clean(ui_to_ctrl_tick_)] ]
          /\ response' = NoResponse
          /\ uiWroteReadBuffer' =
               (uiWroteReadBuffer \/ UpdateReads(dirty(ui_to_ctrl_tick_)))
          /\ uiPc' = "convert"
     ELSE /\ response' =
               IF req.mode \in GetModes
               THEN [ ok |-> TRUE, errstr |-> "",
                      value |-> FieldOf(ui_to_ctrl_data_[clean(ui_to_ctrl_tick_)],
                                        req.mode) ]
               ELSE [ ok |-> FALSE, errstr |-> "invalid mode", value |-> 0 ]
          /\ uiPc' = "finish"
          /\ UNCHANGED << uiIn, uiOut, ui_to_ctrl_data_, uiWroteReadBuffer >>
  /\ UNCHANGED << ui_to_ctrl_tick_, nGoalSets >>
  /\ UiFrame

\* the body of a SET_* case: convert the value into out when it has the
\* right size, refuse it when it has a wrong one, do nothing when it is
\* empty; then ++ui_to_ctrl_tick_
UiConvert ==
  /\ uiPc = "convert"
  /\ IF uiReq.size = "right"
     THEN /\ ui_to_ctrl_data_' =
               [ ui_to_ctrl_data_ EXCEPT ![uiOut] =
                                            WithField(@, uiReq.mode, uiReq.value) ]
          /\ nGoalSets' =
               IF ModeField(uiReq.mode) = "goal"
               THEN [ nGoalSets EXCEPT ![ModeLevel(uiReq.mode)] = @ + 1 ]
               ELSE nGoalSets
          /\ uiWroteReadBuffer' = (uiWroteReadBuffer \/ UpdateReads(uiOut))
          /\ UNCHANGED response
     ELSE /\ response' =
               IF uiReq.size = "wrong"
               THEN [ response EXCEPT !.ok = FALSE,
                                      !.errstr = DimensionError(uiReq.mode) ]
               ELSE response
          /\ UNCHANGED << ui_to_ctrl_data_, nGoalSets, uiWroteReadBuffer >>
  /\ ui_to_ctrl_tick_' = ui_to_ctrl_tick_ + 1
  /\ uiPc' = "finish"
  /\ UNCHANGED << uiReq, uiIn, uiOut, uiReturn, nUiCalls >>
  /\ UiFrame

\* return true; at the end of uiCallback, its only return statement
UiReturns == TRUE

\* the debug message is stored and uiCallback returns true; its locals and
\* the response object go out of the model
UiFinish ==
  /\ uiPc = "finish"
  /\ uiPc' = "idle"
  /\ uiReq' = NoRequest
  /\ uiIn' = 0
  /\ uiOut' = 0
  /\ response' = NoResponse
  /\ uiReturn' = IF UiReturns THEN "true" ELSE "false"
  /\ UNCHANGED << ui_to_ctrl_tick_, ui_to_ctrl_data_, nUiCalls, nGoalSets,
                  uiWroteReadBuffer >>
  /\ UiFrame

\* update(): bind in to the clean buffer and enter stepTaskPosture; the
\* dimension checks pass, as init() and uiCallback store vectors of the
\* right size only
UpdateBegin ==
  /\ updPc = "idle"
  /\ tick_ < MaxUpdates
  /\ updIn' = clean(ui_to_ctrl_tick_)
  /\ updLevel' = "TASK"
  /\ updOk' = "none"
  /\ otg_result' = "none"
  /\ updPc' = "seed"
  /\ UNCHANGED << ui_to_ctrl_data_, ctrl_to_ui_tick_, tick_, cursor,
                  commanded_effort_, nSeeds >>
  /\ UpdateFrame

\* if (in.level[..].goal_changed): the cursor is seeded from the measured
\* state and goal_changed is lowered in the bound buffer
UpdateSeed ==
  /\ updPc = "seed"
  /\ IF ui_to_ctrl_data_[updIn].level[updLevel].goal_changed
     THEN /\ cursor' = [ cursor EXCEPT ![updLevel] = "seeded" ]
          /\ nSeeds' = [ nSeeds EXCEPT ![updLevel] = @ + 1 ]
          /\ ui_to_ctrl_data_' =
               [ ui_to_ctrl_data_ EXCEPT
                   ![updIn].level[updLevel].goal_changed = FALSE ]
     ELSE UNCHANGED << cursor, nSeeds, ui_to_ctrl_data_ >>
  /\ updPc' = "next"
  /\ UNCHANGED << ctrl_to_ui_tick_, tick_, updLevel, updIn, updOk,
                  commanded_effort_, otg_result >>
  /\ UpdateFrame

\* cursor->next(...): a failure code makes stepTaskPosture return false;
\* after the posture level stepTaskPosture runs off its end without a
\* return statement, and the value update() receives is any bool
UpdateNext(otgOk, ok) ==
  /\ updPc = "next"
  /\ otg_result' = IF otgOk THEN "ok" ELSE "failed"
  /\ IF ~otgOk
     THEN /\ updOk' = "false"
          /\ updPc' = "torque"
          /\ UNCHANGED updLevel
     ELSE IF updLevel = "TASK"
          THEN /\ updLevel' = "POSTURE"
               /\ updPc' = "seed"
               /\ UNCHANGED updOk
          ELSE /\ updOk' = IF ok THEN "true" ELSE "false"
               /\ updPc' = "torque"
               /\ UNCHANGED updLevel
  /\ UNCHANGED << ui_to_ctrl_data_, ctrl_to_ui_tick_, tick_, cursor, updIn,
                  commanded_effort_, nSeeds >>
  /\ UpdateFrame

\* a variant that sends the torques whatever stepTaskPosture returned
CommandedEffortAlwaysTau(ok) == "tau"

\* if (ok) commanded_effort_ = out.tau[ii]; else commanded_effort_ = 0;
CommandedEffort(ok) == IF ok = "true" THEN "tau" ELSE "zero"

\* the torques or zeros are sent to the motors and the ticks are incremented
UpdateEnd ==
  /\ updPc = "torque"
  /\ commanded_effort_' = CommandedEffort(updOk)
  /\ ctrl_to_ui_tick_' = ctrl_to_ui_tick_ + 1
  /\ tick_' = tick_ + 1
  /\ updPc' = "idle"
  /\ UNCHANGED << ui_to_ctrl_data_, cursor, updLevel, updIn, updOk, nSeeds,
                  otg_result >>
  /\ UpdateFrame

(***************************************************************************)
(* WBCPlugin::update and its stepTaskPosture.                              *)
(***************************************************************************)
\* the plugin after its constructor and init()
InitWbc ==
  /\ wbcPc = "idle"
  /\ wbc_ok = "none"
  /\ wbc_commanded_effort_ = "none"
  /\ wbc_tick_ = 0

\* what WBCPlugin::update leaves alone
WbcFrame == UNCHANGED << uvars, nvars, lvars, pvars >>

\* update(): the joint state is read and the model updated
WbcUpdateBegin ==
  /\ wbcPc = "idle"
  /\ wbc_tick_ < MaxUpdates
  /\ wbcPc' = "step"
  /\ wbc_ok' = "none"
  /\ UNCHANGED << wbc_commanded_effort_, wbc_tick_ >>
  /\ WbcFrame

\* stepTaskPosture: the seven dimension checks pass, as update() builds the
\* task vectors with 3 rows and the posture vectors with ndof_ rows and
\* init() has made sure that ndof_ is the model's; tau is assigned, and
\* the function runs off its end without a return statement: the value
\* update() receives is any bool
WbcStepTaskPosture(ok) ==
  /\ wbcPc = "step"
  /\ wbcPc' = "torque"
  /\ wbc_ok' = IF ok THEN "true" ELSE "false"
  /\ UNCHANGED << wbc_commanded_effort_, wbc_tick_ >>
  /\ WbcFrame

\* if (ok) commanded_effort_ = tau_[ii]; else commanded_effort_ = 0;
WbcCommandedEffort(ok) == IF ok = "true" THEN "tau" ELSE "zero"

\* the torques or zeros are sent to the motors and tick_ is incremented
WbcUpdateEnd ==
  /\ wbcPc = "torque"
  /\ wbc_commanded_effort_' = WbcCommandedEffort(wbc_ok)
  /\ wbc_tick_' = wbc_tick_ + 1
  /\ wbcPc' = "idle"
  /\ UNCHANGED wbc_ok
  /\ WbcFrame

\* the realtime thread runs the update() of either controller
UpdatesNext ==
  \/ UpdateBegin
  \/ UpdateSeed
  \/ \E otgOk \in BOOLEAN, ok \in BOOLEAN : UpdateNext(otgOk, ok)
  \/ UpdateEnd
  \/ WbcUpdateBegin
  \/ \E ok \in BOOLEAN : WbcStepTaskPosture(ok)
  \/ WbcUpdateEnd

PluginNext ==
  \/ \E req \in Requests : UiBegin(req)
  \/ UiConvert
  \/ UiFinish
  \/ UpdateBegin
  \/ UpdateSeed
  \/ \E otgOk \in BOOLEAN, ok \in BOOLEAN : UpdateNext(otgOk, ok)
  \/ UpdateEnd

(***************************************************************************)
(* Construction, Init, XmlRpcLoop, Cleanup and destruction of a            *)
(* UserProcess.                                                            *)
(***************************************************************************)
\* the XML-RPC side before the xmlrpc command is given
InitXmlRpc ==
  /\ xPc = "idle"
  /\ cPc = "idle"
  /\ xmlrpc_directory = 0
  /\ xAllocated = 0
  /\ xDeletes = 0
  /\ xExitRequested = FALSE
  /\ xDangling = FALSE

\* a UserProcess on which Init has succeeded
InitLifeDone ==
  /\ m_directory_client = 1
  /\ nInitCalls = 1
  /\ nDirectoryClients = 1
  /\ nChannels = 1
  /\ nSinks = 1
  /\ nSources = 1
  /\ nHandlers = 1
  /\ initResult = "ok"
  /\ destroyed = FALSE
  /\ chDeletes = 0
  /\ dcDeletes = 0
  /\ InitXmlRpc

Init == InitUser /\ InitNet /\ InitLifeDone /\ InitPlugin /\ InitWbc

\* a UserProcess as its constructor leaves it: no channel, no directory
\* client; the constructor of the task spec is not part of the source, so
\* its two fields start with any value
InitConstructed ==
  /\ InitNet
  /\ InitPlugin
  /\ InitWbc
  /\ InitXmlRpc
  /\ pc = "prompt"
  /\ cinGood = TRUE
  /\ token = "none"
  /\ bnum = 0
  /\ site = "none"
  /\ m_channel = 0
  /\ m_user_request = [ requestID |-> 0, code |-> "NONE", serial |-> 0 ]
  /\ m_user_reply = [ type |-> "USER_REPLY", requestID |-> 0, nCodes |-> 0,
                      code0 |-> "SUCCESS", matrix |-> << 0, 0 >>,
                      listing |-> << >>, re |-> 0 ]
  /\ \E id \in { 0, 1 }, b \in { 0, NoBehavior } :
       m_task_spec = [ requestID |-> id, behaviorID |-> b ]
  /\ m_lazy_behavior_list = << >>
  /\ outq = << >>
  /\ toServo = << >>
  /\ sentBehaviorID = NoBehavior
  /\ toUser = << >>
  /\ keyboard_querry = FALSE
  /\ ncurses_active = FALSE
  /\ traceEnabled \in BOOLEAN
  /\ stepResult = "none"
  /\ events = << >>
  /\ swrLog = << >>
  /\ handled = NotHandled
  /\ consumed = [ for |-> 0, re |-> 0 ]
  /\ nBuilt = 0
  /\ nRoundTrips = 0
  /\ nEmptyListings = 0
  /\ lastGBL = [ emptyBefore |-> FALSE, roundTrip |-> FALSE, stat |-> "none",
                 threw |-> FALSE ]
  /\ diag = "none"
  /\ failures = << >>
  /\ m_directory_client = 0
  /\ nInitCalls = 0
  /\ nDirectoryClients = 0
  /\ nChannels = 0
  /\ nSinks = 0
  /\ nSources = 0
  /\ nHandlers = 0
  /\ initResult = "none"
  /\ destroyed = FALSE
  /\ chDeletes = 0
  /\ dcDeletes = 0

\* what NetConfig::CreateChannel can do for Init: return a channel, return
\* null, or throw
ChannelOutcomes == { "channel", "null", "throws" }

\* UserProcess::Init(netconf), one call
UserInit(outcome) ==
  /\ ~destroyed
  /\ xPc = "idle" /\ cPc = "idle"
  /\ nInitCalls < MaxInitCalls
  /\ nInitCalls' = nInitCalls + 1
  /\ IF m_channel # 0
     THEN /\ initResult' = "already initialized"
          /\ UNCHANGED << m_channel, m_directory_client, nDirectoryClients,
                          nChannels, nSinks, nSources, nHandlers, m_task_spec >>
     ELSE /\ nDirectoryClients' = nDirectoryClients + 1
          /\ m_directory_client' = nDirectoryClients + 1
          /\ IF outcome = "channel"
             THEN /\ m_channel' = 1
                  /\ nChannels' = nChannels + 1
                  /\ nSinks' = nSinks + 1
                  /\ nSources' = nSources + 1
                  /\ nHandlers' = nHandlers + 1
                  /\ m_task_spec' = [ requestID |-> 0, behaviorID |-> NoBehavior ]
                  /\ initResult' = "ok"
             ELSE /\ initResult' = IF outcome = "null"
                                   THEN "could not create channel"
                                   ELSE "CreateChannel threw"
                  /\ UNCHANGED << m_channel, nChannels, nSinks, nSources,
                                  nHandlers, m_task_spec >>
  /\ UNCHANGED << pc, cinGood, token, bnum, site, m_user_request, m_user_reply,
                  m_lazy_behavior_list, outq, toServo, sentBehaviorID, toUser, keyboard_querry,
                  ncurses_active, traceEnabled, stepResult, events, swrLog,
                  handled, consumed, nBuilt, nRoundTrips, nEmptyListings,
                  lastGBL, diag, failures >>
  /\ UNCHANGED << destroyed, chDeletes, dcDeletes, xPc, cPc, xmlrpc_directory,
                  xAllocated, xDeletes, xExitRequested, xDangling >>
  /\ UNCHANGED << nvars, pvars, wvars >>

\* the members and counters the XML-RPC steps leave alone
XmlFrame ==
  /\ UNCHANGED << uvars, nvars, pvars, wvars >>
  /\ UNCHANGED << m_directory_client, nInitCalls, nDirectoryClients, nChannels,
                  nSinks, nSources, nHandlers, initResult, destroyed, chDeletes,
                  dcDeletes >>

\* the server object is still allocated
ServerAlive == xAllocated > xDeletes

\* handle_SIGTSTP: ask the server to exit if the pointer is set
handle_SIGTSTP ==
  /\ IF xmlrpc_directory # 0
     THEN /\ xExitRequested' = TRUE
          /\ xDangling' = (xDangling \/ ~ServerAlive)
     ELSE UNCHANGED << xExitRequested, xDangling >>

\* XmlRpcLoop: sigaction installs the handler, or fails and the loop returns
XmlInstall(ok) ==
  /\ ~destroyed
  /\ xPc = "idle" /\ xAllocated = 0
  /\ xPc' = IF ok THEN "new" ELSE "returned"
  /\ UNCHANGED << cPc, xmlrpc_directory, xAllocated, xDeletes, xExitRequested,
                  xDangling >>
  /\ XmlFrame

\* xmlrpc_directory = new XMLRPCDirectoryServer(m_directory_client);
XmlNew ==
  /\ xPc = "new"
  /\ xAllocated' = xAllocated + 1
  /\ xmlrpc_directory' = 1
  /\ xPc' = "run"
  /\ UNCHANGED << cPc, xDeletes, xExitRequested, xDangling >>
  /\ XmlFrame

\* Ctrl-Z while the handler is installed
XmlSignal ==
  /\ xPc \in { "new", "run", "sleep", "delete", "null" }
  /\ handle_SIGTSTP
  /\ UNCHANGED << xPc, cPc, xmlrpc_directory, xAllocated, xDeletes >>
  /\ XmlFrame

\* xmlrpc_directory->RunForever(8080) returns once exit() has been called
XmlRunReturns ==
  /\ xPc = "run"
  /\ xExitRequested
  /\ xPc' = "sleep"
  /\ UNCHANGED << cPc, xmlrpc_directory, xAllocated, xDeletes, xExitRequested,
                  xDangling >>
  /\ XmlFrame

\* usleep(200000);
XmlSleep ==
  /\ xPc = "sleep"
  /\ xPc' = "delete"
  /\ UNCHANGED << cPc, xmlrpc_directory, xAllocated, xDeletes, xExitRequested,
                  xDangling >>
  /\ XmlFrame

\* delete xmlrpc_directory;
XmlDelete ==
  /\ xPc = "delete"
  /\ xDeletes' = IF xmlrpc_directory # 0 THEN xDeletes + 1 ELSE xDeletes
  /\ xPc' = "null"
  /\ UNCHANGED << cPc, xmlrpc_directory, xAllocated, xExitRequested, xDangling >>
  /\ XmlFrame

\* xmlrpc_directory = 0; the old handler is restored and XmlRpcLoop returns
XmlNull ==
  /\ xPc = "null"
  /\ xmlrpc_directory' = 0
  /\ xPc' = "returned"
  /\ UNCHANGED << cPc, xAllocated, xDeletes, xExitRequested, xDangling >>
  /\ XmlFrame

\* Cleanup: if (xmlrpc_directory) { handle_SIGTSTP(SIGTSTP); ...
CleanupEnter ==
  /\ ~destroyed
  /\ cPc = "idle"
  /\ IF xmlrpc_directory # 0
     THEN /\ handle_SIGTSTP
          /\ cPc' = "sleep"
     ELSE /\ cPc' = "done"
          /\ UNCHANGED << xExitRequested, xDangling >>
  /\ UNCHANGED << xPc, xmlrpc_directory, xAllocated, xDeletes >>
  /\ XmlFrame

\* usleep(500000);
CleanupSleep ==
  /\ cPc = "sleep"
  /\ cPc' = "delete"
  /\ UNCHANGED << xPc, xmlrpc_directory, xAllocated, xDeletes, xExitRequested,
                  xDangling >>
  /\ XmlFrame

\* delete xmlrpc_directory;
CleanupDelete ==
  /\ cPc = "delete"
  /\ xDeletes' = IF xmlrpc_directory # 0 THEN xDeletes + 1 ELSE xDeletes
  /\ cPc' = "null"
  /\ UNCHANGED << xPc, xmlrpc_directory, xAllocated, xExitRequested, xDangling >>
  /\ XmlFrame

\* xmlrpc_directory = 0; } cout << "see you later\n";
CleanupNull ==
  /\ cPc = "null"
  /\ xmlrpc_directory' = 0
  /\ cPc' = "done"
  /\ UNCHANGED << xPc, xAllocated, xDeletes, xExitRequested, xDangling >>
  /\ XmlFrame

\* ~UserProcess, after Cleanup: delete m_channel; delete m_directory_client;
UserDestroy ==
  /\ ~destroyed
  /\ cPc = "done"
  /\ destroyed' = TRUE
  /\ chDeletes' = IF m_channel # 0 THEN chDeletes + 1 ELSE chDeletes
  /\ dcDeletes' = IF m_directory_client # 0 THEN dcDeletes + 1 ELSE dcDeletes
  /\ UNCHANGED << uvars, nvars, pvars, wvars >>
  /\ UNCHANGED << m_directory_client, nInitCalls, nDirectoryClients, nChannels,
                  nSinks, nSources, nHandlers, initResult, xPc, cPc,
                  xmlrpc_directory, xAllocated, xDeletes, xExitRequested,
                  xDangling >>

LifeNext ==
  \/ \E outcome \in ChannelOutcomes : UserInit(outcome)
  \/ \E ok \in BOOLEAN : XmlInstall(ok)
  \/ XmlNew
  \/ XmlSignal
  \/ XmlRunReturns
  \/ XmlSleep
  \/ XmlDelete
  \/ XmlNull
  \/ CleanupEnter
  \/ CleanupSleep
  \/ CleanupDelete
  \/ CleanupNull
  \/ UserDestroy

\* the life of one UserProcess from its constructor to its destructor
LifeSpec == InitConstructed /\ [][LifeNext]_vars

Next ==
  \/ StepReadFail
  \/ \E t \in { "", "foo" } : StepSyntaxError(t)
  \/ \E t \in SimpleTokens : StepSimple(t)
  \/ StepR
  \/ \E inputOk \in BOOLEAN : StepGo(inputOk)
  \/ \E t \in { "setgoal", "setgains" }, parseOk \in BOOLEAN : StepSetVector(t, parseOk)
  \/ StepBehaviorQuery
  \/ \E t \in { "b", "B" }, parseOk \in BOOLEAN, n \in BehaviorNumbers :
       StepBehavior(t, parseOk, n)
  \/ \E entered \in BOOLEAN : StepKeyLoop(entered)
  \/ \E ok \in BOOLEAN : StepSendWait(ok)
  \/ \E ok \in BOOLEAN, drawn \in BOOLEAN : StepReceiveWait(ok, drawn)
  \/ KeyQuit
  \/ KeyPress
  \/ GBLCached
  \/ GBLFetch
  \/ SwrEnqueue
  \/ \E ok \in BOOLEAN : SwrSendWait(ok)
  \/ SwrReset
  \/ \E ok \in BOOLEAN : SwrReceiveWait(ok)
  \/ SwrReturn
  \/ \E ok \in BOOLEAN : TaskSendWait(ok)
  \/ ServoHandle

\* the console and the servo
Spec == Init /\ [][Next]_vars

NetNext ==
  \/ \E variant \in { "server", "client" }, from \in ProcessT, to \in ProcessT :
       CreateChannelEnter(variant, from, to)
  \/ \E ok \in BOOLEAN : CreateChannelOpen(ok)
  \/ \E ok \in BOOLEAN : CreateChannelBindListen(ok)
  \/ \E cause \in Causes(ncVariant) : CreateChannelAttempt(cause)
  \/ CreateChannelSleep

\* one call of CreateChannel
NetSpec == Init /\ [][NetNext]_vars

\* one call of CreateChannel that is not suspended forever: the process
\* keeps running, so an enabled step of the call is eventually taken
NetSpecFair == Init /\ [][NetNext]_vars /\ WF_vars(NetNext)

(***************************************************************************)
(* UserProcess::HandleMessagePayload called with any message id, in any    *)
(* state of the two requestIDs and the three flags it reads.               *)
(***************************************************************************)
\* the ids of message_id.hpp the console names, and one for every other id
MessageIds == { "USER_REPLY", "USER_REQUEST", "TASK_SPEC", "OTHER" }

\* requestIDs the request and the reply hold when the handler is called
HandlerRequestIDs == 0..2

\* numbers of status codes the reply holds when the handler is called
HandlerCodeCounts == 0..2

InitHandler ==
  /\ InitNet
  /\ InitLifeDone
  /\ InitPlugin
  /\ InitWbc
  /\ pc = "prompt"
  /\ cinGood = TRUE
  /\ token = "none"
  /\ bnum = 0
  /\ site = "none"
  /\ m_channel = 1
  /\ \E id \in HandlerRequestIDs :
       m_user_request = [ requestID |-> id, code |-> "GET_POS", serial |-> id ]
  /\ \E id \in HandlerRequestIDs, n \in HandlerCodeCounts :
       m_user_reply = [ type |-> "USER_REPLY", requestID |-> id, nCodes |-> n,
                        code0 |-> "SUCCESS", matrix |-> << 1, 2 >>,
                        listing |-> << >>, re |-> id ]
  /\ m_task_spec = [ requestID |-> 0, behaviorID |-> NoBehavior ]
  /\ m_lazy_behavior_list = << >>
  /\ outq = << >>
  /\ toServo = << >>
  /\ sentBehaviorID = NoBehavior
  /\ toUser = << >>
  /\ keyboard_querry \in BOOLEAN
  /\ ncurses_active \in BOOLEAN
  /\ traceEnabled \in BOOLEAN
  /\ stepResult = "none"
  /\ events = << >>
  /\ swrLog = << >>
  /\ handled = NotHandled
  /\ consumed = [ for |-> 0, re |-> 0 ]
  /\ nBuilt = m_user_request.serial
  /\ nRoundTrips = 0
  /\ nEmptyListings = 0
  /\ lastGBL = [ emptyBefore |-> FALSE, roundTrip |-> FALSE, stat |-> "none",
                 threw |-> FALSE ]
  /\ diag = "none"
  /\ failures = << >>

\* one call of HandleMessagePayload(msg_id)
HandlerCall(msg_id) ==
  /\ handled' = HandleMessagePayload(msg_id, m_user_request, m_user_reply,
                                     traceEnabled, ncurses_active, keyboard_querry)
  /\ UNCHANGED << pc, cinGood, token, bnum, site, m_channel, m_user_request,
                  m_user_reply, m_task_spec, m_lazy_behavior_list, outq, toServo, sentBehaviorID,
                  toUser, keyboard_querry, ncurses_active, traceEnabled,
                  stepResult, events, swrLog, consumed, nBuilt, nRoundTrips,
                  nEmptyListings, lastGBL, diag, failures >>
  /\ UNCHANGED << nvars, lvars, pvars, wvars >>

HandlerNext == \E msg_id \in MessageIds : HandlerCall(msg_id)

\* the message handler on its own
HandlerSpec == InitHandler /\ [][HandlerNext]_vars

(***************************************************************************)
(* Behavior switches one after the other: Step with b <N> / B <N> on a     *)
(* console that has the behavior list cached and a servo that takes every  *)
(* task spec.                                                              *)
(***************************************************************************)
\* a listing so long that the sentinel of Init() is a valid behavior number
ManyBehaviors == [ i \in 1 .. NoBehavior + 1 |-> "a" ]

\* the listings the console can have cached
SwitchListings == { << "a", "b" >>, ManyBehaviors }

\* the numbers typed after b / B
SwitchNumbers == { 0, 1, 2, NoBehavior }

\* after b? on a servo with two behaviors, or with 256 of them
InitSwitch ==
  /\ InitNet
  /\ InitLifeDone
  /\ InitPlugin
  /\ InitWbc
  /\ pc = "prompt"
  /\ cinGood = TRUE
  /\ token = "none"
  /\ bnum = 0
  /\ site = "none"
  /\ m_channel = 1
  /\ m_user_request = [ requestID |-> 0, code |-> "NONE", serial |-> 0 ]
  /\ m_user_reply = [ type |-> "USER_REPLY", requestID |-> 0, nCodes |-> 0,
                      code0 |-> "SUCCESS", matrix |-> << 0, 0 >>,
                      listing |-> << >>, re |-> 0 ]
  /\ m_task_spec = [ requestID |-> 0, behaviorID |-> NoBehavior ]
  /\ m_lazy_behavior_list \in SwitchListings
  /\ outq = << >>
  /\ toServo = << >>
  /\ sentBehaviorID = NoBehavior
  /\ toUser = << >>
  /\ keyboard_querry = FALSE
  /\ ncurses_active = FALSE
  /\ traceEnabled \in BOOLEAN
  /\ stepResult = "none"
  /\ events = << >>
  /\ swrLog = << >>
  /\ handled = NotHandled
  /\ consumed = [ for |-> 0, re |-> 0 ]
  /\ nBuilt = 0
  /\ nRoundTrips = 0
  /\ nEmptyListings = 0
  /\ lastGBL = [ emptyBefore |-> FALSE, roundTrip |-> FALSE, stat |-> "none",
                 threw |-> FALSE ]
  /\ diag = "none"
  /\ failures = << >>

\* Step with "b <n>" or "B <n>", the list cached and SendWait succeeding:
\* the number is checked, a lowercase repeat is skipped, otherwise the
\* task spec gets the next requestID and the number, is enqueued and sent;
\* toServo shows the task spec the servo got last
BehaviorSwitch(t, n) ==
  /\ pc = "prompt"
  /\ cinGood
  /\ t \in { "b", "B" }
  /\ n >= 0
  /\ ~NeedsFetch(m_lazy_behavior_list)
  /\ keyboard_querry' = TRUE
  /\ token' = t
  /\ bnum' = n
  /\ lastGBL' = [ emptyBefore |-> FALSE, roundTrip |-> FALSE, stat |-> "none",
                  threw |-> FALSE ]
  /\ IF TooLarge(n, m_lazy_behavior_list)
     THEN /\ diag' = "ERROR behavior number is too large"
          /\ events' = << >>
          /\ UNCHANGED << m_task_spec, toServo, sentBehaviorID >>
     ELSE IF t = "b" /\ n = m_task_spec.behaviorID
     THEN /\ diag' = "already running behavior"
          /\ events' = << >>
          /\ UNCHANGED << m_task_spec, toServo, sentBehaviorID >>
     ELSE /\ diag' = "none"
          /\ m_task_spec' = [ requestID |-> NextRequestID(m_task_spec.requestID),
                              behaviorID |-> n ]
          /\ events' = << Ev("build", "m_task_spec"), Ev("enqueue", "m_task_spec"),
                          Ev("sendwait", "none") >>
          /\ toServo' = Flushed(<< "m_task_spec" >>, m_user_request, m_task_spec')
          /\ sentBehaviorID' = n
  /\ Return(TRUE)
  /\ UNCHANGED << cinGood, site, m_channel, m_user_request, m_user_reply,
                  m_lazy_behavior_list, outq, toUser, ncurses_active,
                  traceEnabled, swrLog, handled, consumed, nBuilt, nRoundTrips,
                  nEmptyListings, failures >>
  /\ UNCHANGED << nvars, lvars, pvars, wvars >>

SwitchNext == \E t \in { "b", "B" }, n \in SwitchNumbers : BehaviorSwitch(t, n)

\* a console session of behavior switches
SwitchSpec == InitSwitch /\ [][SwitchNext]_vars

\* uiCallback and update() of one TaskPostureOTGPlugin, interleaved
PluginSpec == Init /\ [][PluginNext]_vars

\* the update() functions of the two controller plugins
UpdateSpec == Init /\ [][UpdatesNext]_vars

(***************************************************************************)
(* Properties of the console.                                              *)
(***************************************************************************)
\* the process is inside ReceiveWait or about to enter it
AtReceiveWait == pc = "recvwait" \/ (pc = "swr" /\ SwrStmt = "recvwait")

IsPrefix(a, b) == Len(a) <= Len(b) /\ \A i \in 1..Len(a) : a[i] = b[i]

\* C1: SendWaitReceive enqueues the request, calls SendWait, clears the
\* reply (code count 0, matrix 0x0) and calls ReceiveWait, in this order and
\* once each: its calls always form a prefix of that sequence, ReceiveWait
\* starts on a flushed queue and a cleared reply, and the reply it received
\* is not cleared afterwards.
TransactionOrder ==
  pc = "swr" =>
    /\ IsPrefix(swrLog, << "enqueue", "sendwait", "reset", "recvwait" >>)
    /\ SwrStmt = "recvwait" =>
         /\ outq = << >>
         /\ m_user_reply.nCodes = 0
         /\ m_user_reply.matrix = << 0, 0 >>
    /\ SwrStmt = "return" =>
         /\ swrLog = << "enqueue", "sendwait", "reset", "recvwait" >>
         /\ m_user_reply.re = consumed.re
         /\ m_user_reply.nCodes = 1

\* C1 witness: a transaction has run to its end on a reply buffer that held
\* an earlier reply
TransactionCompleted ==
  /\ pc = "swr" /\ SwrStmt = "return"
  /\ m_user_request.serial = 2
  /\ m_user_reply.nCodes = 1

\* C2: the reply taken by a ReceiveWait answers the request that
\* ReceiveWait was called for, also after an earlier wait timed out, and no
\* request is left to be sent while a reply is awaited.
RepliesAnswerTheirRequest ==
  /\ consumed.for # 0 => consumed.re = consumed.for
  /\ AtReceiveWait => outq = << >>

OneRoundTripInTotal ==
  m_lazy_behavior_list # << >> => nRoundTrips = 1

\* C4 amended: with a non-empty cache every round trip but the one that
\* filled it returned an empty listing, so calls on a non-empty cache issue
\* none; while the cache is empty every round trip so far returned an empty
\* listing, is still running or has failed.
RoundTripsUntilFilled ==
  /\ m_lazy_behavior_list # << >> => nRoundTrips = nEmptyListings + 1
  /\ m_lazy_behavior_list = << >> =>
       nRoundTrips \in { nEmptyListings, nEmptyListings + 1 }

\* C4 witness: GetBehaviorList was called on a non-empty cache and returned
\* without a round trip
CachedCallSeen ==
  /\ m_lazy_behavior_list # << >>
  /\ lastGBL.emptyBefore = FALSE
  /\ lastGBL.roundTrip = FALSE
  /\ token \in { "b", "B" }
  /\ nRoundTrips = 1

\* C5: GetBehaviorList does a round trip exactly when the cache is empty at
\* the call, throws when ListBehaviors returns a status other than SUCCESS,
\* and a non-empty cache is never cleared or changed.
LazyListDiscipline ==
  /\ [](/\ lastGBL.roundTrip <=> lastGBL.emptyBefore
        /\ lastGBL.stat \notin { "none", "SUCCESS" } => lastGBL.threw
        /\ (lastGBL.stat = "SUCCESS" /\ pc # "exited") => ~lastGBL.threw)
  /\ [][m_lazy_behavior_list # << >>
          => m_lazy_behavior_list' = m_lazy_behavior_list]_vars

\* C5 witness: ListBehaviors returned a failure status and GetBehaviorList
\* threw
ListFailureThrown ==
  /\ lastGBL.emptyBefore /\ lastGBL.roundTrip
  /\ lastGBL.stat = "NOT_IMPLEMENTED"
  /\ lastGBL.threw
  /\ stepResult = "false"

\* index of the last request built before events[i] (0: none)
LastBuild(i) ==
  LET bs == { b \in 1..(i - 1) : events[b].op = "build" }
  IN IF bs = { } THEN 0 ELSE CHOOSE b \in bs : \A c \in bs : c <= b

\* C10: whenever a command calls SendWait (or goes on to wait for a reply),
\* the request it built last in this Step was enqueued exactly once since
\* it was built.
EnqueuedOnceBeforeSendWait ==
  \A i \in 1..Len(events) :
    events[i].op = "sendwait" =>
      /\ LastBuild(i) # 0
      /\ Cardinality({ e \in (LastBuild(i) + 1)..(i - 1) :
                         events[e] = Ev("enqueue", events[LastBuild(i)].msg) }) = 1

(***************************************************************************)
(* Properties of CreateChannel.                                            *)
(***************************************************************************)
\* Accept / Connect has been called at least once
Attempted == ncStatus # "none"

\* C6: the port depends on the pair alone: SERVO<->MODEL is 9999 and
\* SERVO<->USER is 8888 in both directions and for server and client; every
\* other pair throws before a socket is created, opened, bound, connected
\* or waited for.
PortSelection ==
  /\ \A a \in ProcessT, b \in ProcessT : get_tcp_port(a, b) = get_tcp_port(b, a)
  /\ ncPc # "idle" =>
       IF { ncFrom, ncTo } = { "SERVO", "MODEL" }
       THEN ncPort = 9999 /\ ncCreated = 1 /\ ncStage # "port"
       ELSE IF { ncFrom, ncTo } = { "SERVO", "USER" }
       THEN ncPort = 8888 /\ ncCreated = 1 /\ ncStage # "port"
       ELSE /\ ncPc = "thrown" /\ ncStage = "port"
            /\ ncPort = 0 /\ ncCreated = 0 /\ ncOpenCalls = 0
            /\ ncBindCalls = 0 /\ ncAttempts = 0 /\ ncSleptMs = 0

\* C6 witness: a pair without a port made CreateChannel throw
UnmappedPairThrown ==
  /\ ncPc = "thrown" /\ ncStage = "port"
  /\ ncFrom = "MODEL" /\ ncTo = "USER"

CreateChannelEnds == <>(ncPc \in { "returned", "thrown" })

\* C8 amended: the loops have no limit: CreateChannel sleeps 250 ms before
\* every further attempt and goes on for as long as the status is
\* COM_TRY_AGAIN (client: or COM_OTHER_ERROR); it has returned or thrown
\* only on another status.
RetryUntilStatusChanges ==
  LET retryable == IF ncVariant = "server"
                   THEN { "COM_TRY_AGAIN" }
                   ELSE { "COM_TRY_AGAIN", "COM_OTHER_ERROR" }
  IN /\ ncPc = "sleep" => ncStatus \in retryable
     /\ (ncPc \in { "returned", "thrown" } /\ Attempted) => ncStatus \notin retryable
     /\ (ncPc = "sleep" /\ ncAttempts < MaxAttempts) =>
          ncSleptMs = 250 * (ncAttempts - 1)
     /\ (ncPc = "attempt" /\ ncAttempts < MaxAttempts) =>
          ncSleptMs = 250 * ncAttempts

\* C8 witness: the server is still polling after as many attempts as are
\* counted
ServerStillPolling ==
  /\ ncVariant = "server" /\ ncPc = "sleep"
  /\ ncStatus = "COM_TRY_AGAIN"
  /\ ncAttempts = MaxAttempts

\* C9: a failed Open, BindListen or final Accept / Connect is not retried,
\* no later setup step runs, the socket is deleted once and CreateChannel
\* throws; the socket is returned exactly on COM_OK and is then not deleted.
SetupFailureDiscipline ==
  /\ ncOpenCalls <= 1 /\ ncBindCalls <= 1 /\ ncDeleted <= 1 /\ ncCreated <= 1
  /\ (ncPc = "thrown" /\ ncStage = "open") =>
       ncOpenCalls = 1 /\ ncBindCalls = 0 /\ ncAttempts = 0 /\ ncDeleted = 1
  /\ (ncPc = "thrown" /\ ncStage = "bind") =>
       ncBindCalls = 1 /\ ncAttempts = 0 /\ ncDeleted = 1
  /\ (ncPc = "thrown" /\ ncStage = "attempt") =>
       ncStatus # "COM_OK" /\ ncDeleted = 1
  /\ ncPc = "returned" => ncStatus = "COM_OK" /\ ncDeleted = 0 /\ ncCreated = 1
  /\ (ncPc \in { "returned", "thrown" } /\ ncStatus = "COM_OK") => ncPc = "returned"
  /\ ncPc \notin { "returned", "thrown" } => ncDeleted = 0

\* C9 witness: BindListen failed and CreateChannel threw
BindFailureThrown ==
  /\ ncPc = "thrown" /\ ncStage = "bind"
  /\ ncDeleted = 1 /\ ncAttempts = 0

(***************************************************************************)
(* Properties of Step's error handling.                                    *)
(***************************************************************************)
\* C11: a line whose first token is no known command makes Step print the
\* syntax error and return true; Step calls no EnqueueMessage, SendWait or
\* ReceiveWait, and the request, the reply, the task spec and the queues are
\* as they were.
UnknownTokenFrame ==
  /\ [](diag = "SYNTAX ERROR: unknown command" =>
          /\ token = "foo" /\ events = << >>
          /\ stepResult = "true" /\ pc = "prompt")
  /\ [][ (pc = "prompt" /\ token' = "foo" /\ toServo' = toServo) =>
           /\ diag' = "SYNTAX ERROR: unknown command"
           /\ stepResult' = "true" /\ pc' = "prompt"
           /\ events' = << >>
           /\ m_user_request' = m_user_request
           /\ m_user_reply' = m_user_reply
           /\ m_task_spec' = m_task_spec
           /\ outq' = outq /\ toUser' = toUser ]_vars

\* C11 witness: an unknown command was typed after a request had been
\* answered
UnknownTokenSeen ==
  /\ diag = "SYNTAX ERROR: unknown command"
  /\ token = "foo"
  /\ nBuilt > 0 /\ m_user_reply.nCodes = 1

\* the calls of one ListBehaviors round trip, as Step's log shows them
RoundTripEvents ==
  << Ev("build", "m_user_request"), Ev("enqueue", "m_user_request"),
     Ev("sendwait", "none"), Ev("reset", "m_user_reply"), Ev("recvwait", "none") >>

\* C12 as stated: a b / B command that ends with "behavior number too
\* large" has made no network call at all, whatever the state it started in.
TooLargeWithoutTraffic ==
  diag = "ERROR behavior number is too large" => events = << >>

\* C12 amended: a b / B command that ends with "behavior number too large"
\* has sent no task spec and returns true; it has made no network call when
\* the behavior list was cached, and exactly the one ListBehaviors round trip
\* when the list was empty at the call.  A task spec is only sent for a
\* number below the number of behaviors.
TooLargeSendsNoTaskSpec ==
  /\ diag = "ERROR behavior number is too large" =>
       /\ pc = "prompt" /\ stepResult = "true"
       /\ token \in { "b", "B" }
       /\ bnum >= Len(m_lazy_behavior_list)
       /\ \A i \in 1..Len(events) : events[i].msg # "m_task_spec"
       /\ lastGBL.roundTrip <=> lastGBL.emptyBefore
       /\ events = IF lastGBL.roundTrip THEN RoundTripEvents ELSE << >>
  /\ pc = "tsend" => (0 <= bnum /\ bnum < Len(m_lazy_behavior_list))

\* C12 witness: the number was found too large after the list had to be
\* fetched for the comparison
TooLargeAfterFetch ==
  /\ diag = "ERROR behavior number is too large"
  /\ lastGBL.roundTrip
  /\ Len(m_lazy_behavior_list) = 2 /\ bnum = 2

\* a SendWait or ReceiveWait fails in this step
WaitFails == Len(failures') > Len(failures)

\* C13 as stated: when a SendWait or ReceiveWait fails, Step prints a
\* diagnostic, returns true and the console is back at its prompt.
WaitFailureKeepsConsole ==
  [][ WaitFails => (diag' # "none" /\ stepResult' = "true" /\ pc' = "prompt") ]_vars

\* C13 amended: no exception escapes Step, but only the key-press loop
\* goes on: there the failure is kept for the error log, nothing is printed
\* and Step returns true; in every other command Step prints "EXCEPTION ..."
\* and returns false, as it does when standard input cannot be read.
WaitFailureEndsStep ==
  [][ WaitFails =>
        IF token = "k"
        THEN /\ stepResult' = "true" /\ pc' = "prompt"
             /\ diag' = diag /\ ncurses_active' = FALSE
        ELSE /\ stepResult' = "false" /\ pc' = "exited"
             /\ diag' = "EXCEPTION" ]_vars

\* C13 witness: a console command other than k lost its reply and Step
\* returned false
WaitFailureReturnedFalse ==
  /\ failures # << >>
  /\ failures[Len(failures)] \in SimpleTokens
  /\ events # << >> /\ events[Len(events)].op = "recvwait"
  /\ diag = "EXCEPTION" /\ stepResult = "false"

\* the process is at a call of SendWait or ReceiveWait
AtWait == pc \in { "sendwait", "recvwait", "tsend" }
            \/ (pc = "swr" /\ SwrStmt \in { "sendwait", "recvwait" })

\* C14 as stated: once a SendWait or ReceiveWait has failed, the process
\* calls neither again on its channel.
NoWaitAfterFailure == failures # << >> => ~AtWait

\* C14 amended: UserProcess has no failed state and never reconnects: the
\* channel is the one Init created and Step never calls CreateChannel.  A
\* failure outside the key-press loop ends with Step returning false; a
\* failure inside the loop leaves the console at its prompt, where the next
\* command sends and receives on the same channel.
NoReconnectNoFailedState ==
  /\ m_channel = 1
  /\ ncPc = "idle" /\ ncCreated = 0
  /\ \A i \in 1..Len(failures) :
       failures[i] # "k" => (i = Len(failures) /\ pc = "exited" /\ stepResult = "false")
  /\ (failures # << >> /\ token = "k") => pc # "exited"

\* C14 witness: after a failure in the key-press loop another command is
\* about to call SendWait
WaitAfterFailure ==
  /\ failures # << >>
  /\ token # "k" /\ pc = "sendwait"
  /\ m_channel = 1

\* the size fields of the reply buffer are reset
ReplyIsReset == m_user_reply.nCodes = 0 /\ m_user_reply.matrix = << 0, 0 >>

\* C15 as stated: whenever a ReceiveWait is about to refill m_user_reply,
\* its code count and matrix size have been reset since the last reply.
ReplyResetBeforeEveryReceive == AtReceiveWait => ReplyIsReset

\* C15 amended: the reply buffer is reused, but it is reset before the
\* ReceiveWait of SendWaitReceive only; at the ReceiveWait of a console
\* command or of the key-press loop it still holds what the last reply
\* received left in it.
ReplyResetInTransactionOnly ==
  /\ (pc = "swr" /\ SwrStmt = "recvwait") => ReplyIsReset
  /\ (pc = "recvwait" /\ handled.id = "none") => ReplyIsReset
  /\ (pc = "recvwait" /\ handled.id # "none") =>
       /\ m_user_reply.nCodes = 1
       /\ m_user_reply.requestID = handled.got
       /\ m_user_reply.re = consumed.re

\* C15 witness: a console command waits for its reply with the matrix of
\* the previous reply still in the buffer
StaleSizesAtReceive ==
  /\ pc = "recvwait"
  /\ m_user_reply.nCodes = 1 /\ m_user_reply.matrix = << 1, 2 >>

(***************************************************************************)
(* Properties of the message handler.                                      *)
(***************************************************************************)
\* C16: a USER_REPLY whose requestID is not the request's does not abort
\* the transaction: the handler returns 0, nothing is thrown, and the reply
\* is the one message the ReceiveWait was waiting for.
MismatchDoesNotAbort ==
  [][ (Len(toUser') < Len(toUser)
       /\ Head(toUser).requestID # m_user_request.requestID) =>
        /\ handled'.id = "USER_REPLY" /\ handled'.ret = 0
        /\ handled'.expected # handled'.got
        /\ m_user_reply' = Head(toUser)
        /\ consumed'.re = Head(toUser).re
        /\ Len(failures') = Len(failures)
        /\ stepResult' # "false" /\ pc' # "exited" ]_vars

\* C16 witness: a command has ended normally on a reply that answered
\* another request
MismatchAccepted ==
  /\ handled.id = "USER_REPLY" /\ handled.expected # handled.got
  /\ handled.ret = 0
  /\ consumed.re # consumed.for
  /\ pc = "prompt" /\ stepResult = "true"

TaskSpecSent == m_task_spec' # m_task_spec

\* C18 as stated: every task spec sent carries a requestID greater than the
\* one sent before it, for any number of switches.
TaskSpecIDIncreases ==
  [][ TaskSpecSent => m_task_spec'.requestID > m_task_spec.requestID ]_vars

\* C18 amended: the requestID is 0 after Init and each accepted switch adds
\* one in the width of the field: after 255 comes 0 again, so the IDs
\* increase only between two wraps.  The task spec sent carries the new ID.
TaskSpecIDWraps ==
  /\ [](m_task_spec.requestID \in 0..255)
  /\ [](token = "none" => m_task_spec.requestID = 0)
  /\ [][ TaskSpecSent =>
           /\ m_task_spec'.requestID = (m_task_spec.requestID + 1) % 256
           /\ toServo' # << >>
           /\ toServo'[Len(toServo')].type = "TASK_SPEC"
           /\ toServo'[Len(toServo')].requestID = m_task_spec'.requestID
           /\ toServo'[Len(toServo')].behaviorID = bnum' ]_vars

\* C18 witness: the requestID is back at 0 after 256 switches
TaskSpecIDWrapped ==
  /\ m_task_spec.requestID = 0
  /\ token \in { "b", "B" }
  /\ toServo # << >> /\ toServo[1].requestID = 0

(***************************************************************************)
(* Properties of Init and of shutdown.                                     *)
(***************************************************************************)
\* C19: over any sequence of Init calls at most one channel and at most
\* one directory client are allocated for a UserProcess.
OneChannelOneDirectoryClient == nChannels <= 1 /\ nDirectoryClients <= 1

\* C20: however Cleanup and a running XmlRpcLoop interleave, the
\* XMLRPCDirectoryServer object is never deleted more often than it was
\* allocated.
ServerDeletedOnce == xDeletes <= xAllocated

\* C21: a SIGTSTP delivered while the handler is installed, with no Cleanup
\* under way, never calls exit() through xmlrpc_directory after XmlRpcLoop
\* has deleted the server object.
SignalNeverUsesDeletedServer == (cPc = "idle") => ~xDangling

\* C22: however uiCallback invocations interleave with an update() in
\* progress, uiCallback never writes the ui_to_ctrl buffer that update() has
\* bound as its input.
UiNeverWritesBufferBeingRead == ~uiWroteReadBuffer

\* C26: on each level the OTG cursor is seeded at most once for init() and
\* once for every valid SET_TASK_GOAL / SET_POSTURE_GOAL, however
\* uiCallback and update() interleave.
ReseedOncePerGoalChange == \A jj \in Levels : nSeeds[jj] <= 1 + nGoalSets[jj]

\* C23: the first lowercase b <N> after Init() is sent for every valid N:
\* the task spec gets the next requestID and the number, and is flushed.
FirstSwitchIsSent ==
  [][ ( /\ stepResult = "none"
        /\ token' = "b"
        /\ ~TooLarge(bnum', m_lazy_behavior_list) )
      => ( /\ m_task_spec'.behaviorID = bnum'
           /\ m_task_spec'.requestID = NextRequestID(m_task_spec.requestID)
           /\ toServo' # toServo ) ]_vars

\* positions of the task spec's EnqueueMessage among the calls of a Step
TaskSpecEnqueues(evs) ==
  { i \in 1..Len(evs) : evs[i] = Ev("enqueue", "m_task_spec") }

\* C24: task specs are fire-and-forget: the SendWait that flushes the task
\* spec ends the Step; the task spec was enqueued once, no ReceiveWait was
\* called after it, and no reply was taken from the link or stored for it.
TaskSpecFireAndForget ==
  [][ (pc = "tsend" /\ pc' # "tsend")
      => ( /\ pc' \in { "prompt", "exited" }
           /\ events' = Append(events, Ev("sendwait", "none"))
           /\ Cardinality(TaskSpecEnqueues(events')) = 1
           /\ \A i \in TaskSpecEnqueues(events') :
                \A j \in i + 1 .. Len(events') : events'[j].op # "recvwait"
           /\ toUser' = toUser
           /\ m_user_reply' = m_user_reply
           /\ consumed' = consumed
           /\ handled' = handled ) ]_vars

\* C24 witness: a behavior switch was accepted, its task spec flushed, and
\* Step has returned true.
TaskSpecFlushed ==
  /\ token \in { "b", "B" }
  /\ pc = "prompt"
  /\ stepResult = "true"
  /\ TaskSpecEnqueues(events) # { }
  /\ events[Len(events)] = Ev("sendwait", "none")
  /\ \E i \in 1..Len(toServo) : toServo[i].type = "TASK_SPEC"

\* the console is inside InteractiveKeyPressLoop
InKeyPressLoop == token = "k" /\ pc \in { "key_getch", "sendwait", "recvwait" }

\* the calls of one round trip of the key-press loop
KeyPressRoundTrip ==
  << Ev("build", "m_user_request"), Ev("enqueue", "m_user_request"),
     Ev("sendwait", "none"), Ev("recvwait", "none") >>

\* C25: in key-press mode a key other than 'q'/'Q' enqueues one key_press
\* request, followed by one SendWait and one ReceiveWait; 'q'/'Q' leaves
\* the mode without sending; a failing SendWait or ReceiveWait ends the mode
\* and Step returns true; the curses flag is false whenever the loop is not
\* running; and no reply is dumped while the flag is true.
KeyPressLoopDiscipline ==
  [][ /\ (pc = "key_getch" /\ pc' = "sendwait")
         => ( /\ outq' = Append(outq, "m_user_request")
              /\ m_user_request'.code = CodeOf("k")
              /\ events' = SubSeq(KeyPressRoundTrip, 1, 2) )
      /\ (InKeyPressLoop /\ pc = "recvwait" /\ pc' # "recvwait")
         => events' = KeyPressRoundTrip
      /\ (pc = "key_getch" /\ pc' # "key_getch" /\ pc' # "sendwait")
         => ( /\ pc' = "prompt" /\ stepResult' = "true"
              /\ UNCHANGED << outq, toServo, m_user_request, events >> )
      /\ (InKeyPressLoop /\ WaitFails)
         => ( /\ pc' = "prompt" /\ stepResult' = "true"
              /\ diag' = diag )
      /\ (~InKeyPressLoop') => ~ncurses_active'
      /\ (ncurses_active /\ handled' # handled) => ~handled'.dumped ]_vars

\* C25 witness: a key press was answered inside the loop, the reply was
\* handled without a dump, and the loop waits for the next key.
KeyPressAnswered ==
  /\ InKeyPressLoop /\ pc = "key_getch"
  /\ ncurses_active
  /\ events = KeyPressRoundTrip
  /\ handled.id = "USER_REPLY" /\ ~handled.dumped

(***************************************************************************)
(* Properties of malformed commands.                                       *)
(***************************************************************************)
\* what Step prints when the arguments of a command do not parse
ParseDiags ==
  { "SYNTAX ERROR reading first token", "SYNTAX ERROR reading behavior number",
    "ERROR behavior number is negative", "SYNTAX ERROR reading goal",
    "SYNTAX ERROR reading gains" }

\* this step puts no message into the outgoing queue or onto the wire (the
\* servo may take one off the wire meanwhile)
NothingSent == outq' = outq /\ Len(toServo') <= Len(toServo)

\* C27 as stated: a command that ends with one of the parse or validation
\* errors (empty line, b with a missing, negative or too large number,
\* setgoal or setgains with too few numbers) has enqueued and sent nothing
\* and has returned true.
MalformedCommandSilent ==
  diag \in ParseDiags \cup { "ERROR behavior number is too large" } =>
    events = << >> /\ stepResult = "true"

\* C27 amended: a command whose arguments do not parse (empty line, b with a
\* missing or negative number, setgoal with fewer than 7 numbers, setgains
\* with fewer than 4) enqueues and sends nothing, leaves m_user_request and
\* the task spec unchanged and returns true.  A b with a too large number
\* does the same when the behavior list is cached; with an empty list
\* it first makes the one ListBehaviors round trip, which rebuilds
\* m_user_request, and then leaves the task spec unchanged, sends no task
\* spec and returns true.
MalformedCommandFrame ==
  [][ /\ (pc = "prompt" /\ diag' \in ParseDiags) =>
           /\ events' = << >>
           /\ UNCHANGED << m_user_request, m_task_spec >> /\ NothingSent
           /\ stepResult' = "true" /\ pc' = "prompt"
      /\ (pc = "prompt" /\ pc' = "gbl" /\ token' \in { "b", "B" }) =>
           /\ events' = << >>
           /\ UNCHANGED << m_user_request, m_task_spec >> /\ NothingSent
      /\ (pc = "gbl" /\ diag' = "ERROR behavior number is too large") =>
           /\ events' = << >>
           /\ UNCHANGED << m_user_request, m_task_spec >> /\ NothingSent
           /\ stepResult' = "true" /\ pc' = "prompt"
      /\ (pc = "swr" /\ pc' = "prompt"
            /\ diag' = "ERROR behavior number is too large") =>
           /\ events' = RoundTripEvents
           /\ m_user_request'.code = "LIST_BEHAVIORS"
           /\ UNCHANGED m_task_spec /\ NothingSent
           /\ stepResult' = "true"
    ]_vars

\* C27 witness: a setgoal line with too few numbers has been turned down at
\* the prompt of a console that has built a request before, and that
\* request is still in place
MalformedCommandSeen ==
  /\ pc = "prompt" /\ stepResult = "true"
  /\ token = "setgoal" /\ diag = "SYNTAX ERROR reading goal"
  /\ events = << >>
  /\ m_user_request.requestID >= 1

(***************************************************************************)
(* Properties of the stored behaviorID.                                    *)
(***************************************************************************)
\* C28: whenever Step has returned, the behaviorID stored in the task spec
\* is the behavior number of the last task spec that a SendWait flushed,
\* or the sentinel if none was flushed; a behavior switch whose SendWait
\* fails leaves the stored behaviorID as it was.
BehaviorIDIsLastFlushed ==
  pc \in { "prompt", "exited" } => m_task_spec.behaviorID = sentBehaviorID

(***************************************************************************)
(* Properties of the go command.                                           *)
(***************************************************************************)
\* C29: go sends a goal request only when InteractiveGoalRequest has read
\* all six fields and built the goal; when standard input fails while the
\* fields are read, no request is enqueued or sent.
GoSendsOnlyBuiltGoal ==
  (token = "go" /\ diag = "ERROR reading standard input") =>
    /\ events = << >>
    /\ outq = << >>
    /\ pc \notin { "sendwait", "recvwait" }

(***************************************************************************)
(* Properties of the handler's status line.                                *)
(***************************************************************************)
\* C30: HandleMessagePayload reads the first status code of a USER_REPLY
\* only when the reply holds at least one status code; for a reply with no
\* codes no element of the code list is read, with tracing on or off.
StatusReadOnlyIfPresent == handled.readCode0 => handled.nCodes >= 1

(***************************************************************************)
(* Properties of TaskPostureOTGPlugin::uiCallback.                         *)
(***************************************************************************)
\* the parameters update() takes from a buffer: every field but the
\* goal_changed flags
ParamsOf(buf) ==
  [ control_point |-> buf.control_point,
    level |-> [ jj \in Levels |-> [ goal |-> buf.level[jj].goal,
                                    kp |-> buf.level[jj].kp,
                                    kd |-> buf.level[jj].kd ] ] ]

\* the buffer with the addressed field set and nothing else touched
WithFieldOnly(buf, mode, v) ==
  IF ModeField(mode) = "control_point"
  THEN [ buf EXCEPT !.control_point = v ]
  ELSE [ buf EXCEPT !.level[ModeLevel(mode)][ModeField(mode)] = v ]

\* the clean buffer before and after the step
OldClean == ui_to_ctrl_data_[clean(ui_to_ctrl_tick_)]
NewClean == ui_to_ctrl_data_'[clean(ui_to_ctrl_tick_')]

\* C31 as stated: a SET_* with a wrong dimension is refused with an errstr,
\* a refused or empty SET_* leaves the clean buffer as it was, and a valid
\* SET_* changes the addressed field and no other field of the clean buffer.
SetChangesOnlyAddressedField ==
  [][ (uiPc = "convert" /\ uiPc' = "finish") =>
        /\ uiReq.size = "wrong" =>
             response'.ok = FALSE /\ response'.errstr # "" /\ NewClean = OldClean
        /\ uiReq.size = "empty" => NewClean = OldClean
        /\ uiReq.size = "right" =>
             NewClean = WithFieldOnly(OldClean, uiReq.mode, uiReq.value)
    ]_vars

\* C31 amended: a SET_* with a wrong dimension is refused with a non-empty
\* errstr and the callback returns true; after a refused or an empty SET_*
\* the parameters of the new clean buffer are those of the old one; after a
\* valid SET_* they are those of the old one with the addressed field
\* replaced, and a SET_*_GOAL has also raised goal_changed of its level.
\* The goal_changed flags of the other levels are those the copy found.
SetChangesAddressedParameter ==
  [][ /\ (uiPc = "convert" /\ uiPc' = "finish") =>
           /\ clean(ui_to_ctrl_tick_') = uiOut
           /\ uiReq.size = "wrong" =>
                /\ response'.ok = FALSE /\ response'.errstr # ""
                /\ ParamsOf(NewClean) = ParamsOf(OldClean)
           /\ uiReq.size = "empty" =>
                /\ response'.ok = TRUE
                /\ ParamsOf(NewClean) = ParamsOf(OldClean)
           /\ uiReq.size = "right" =>
                /\ response'.ok = TRUE
                /\ ParamsOf(NewClean) =
                     ParamsOf(WithFieldOnly(OldClean, uiReq.mode, uiReq.value))
                /\ FieldOf(NewClean, uiReq.mode) = uiReq.value
                /\ ModeField(uiReq.mode) = "goal" =>
                     NewClean.level[ModeLevel(uiReq.mode)].goal_changed
      /\ (uiPc = "finish" /\ uiPc' = "idle") => uiReturn' = "true"
    ]_vars

\* C31 witness: after an update() has run, a SET_* with a wrong dimension
\* has been refused and the index counter has moved on
WrongDimensionRefused ==
  /\ uiPc = "finish"
  /\ uiReq.mode \in SetModes /\ uiReq.size = "wrong"
  /\ response.ok = FALSE /\ response.errstr = DimensionError(uiReq.mode)
  /\ tick_ >= 1

\* C32: a GET_* request and a request with an invalid mode leave
\* ui_to_ctrl_tick_ and both ui_to_ctrl buffers as they are; a GET_* answers
\* with the value the clean buffer holds for the field and response.ok =
\* true, an invalid mode with response.ok = false and an "invalid mode"
\* errstr.
GetLeavesBuffersAlone ==
  [][ /\ (uiPc = "idle" /\ uiPc' = "finish") =>
           LET in == ui_to_ctrl_data_[clean(ui_to_ctrl_tick_)]
               mode == uiReq'.mode
               asked ==
                 CASE mode = "GET_CONTROL_POINT" -> in.control_point
                   [] mode = "GET_TASK_GOAL"     -> in.level["TASK"].goal
                   [] mode = "GET_TASK_KP"       -> in.level["TASK"].kp
                   [] mode = "GET_TASK_KD"       -> in.level["TASK"].kd
                   [] mode = "GET_POSTURE_GOAL"  -> in.level["POSTURE"].goal
                   [] mode = "GET_POSTURE_KP"    -> in.level["POSTURE"].kp
                   [] mode = "GET_POSTURE_KD"    -> in.level["POSTURE"].kd
                   [] OTHER                      -> 0
           IN /\ mode \notin SetModes
              /\ UNCHANGED << ui_to_ctrl_tick_, ui_to_ctrl_data_ >>
              /\ mode \in GetModes =>
                   response' = [ ok |-> TRUE, errstr |-> "", value |-> asked ]
              /\ mode \notin GetModes =>
                   response'.ok = FALSE /\ response'.errstr = "invalid mode"
      /\ (uiPc = "finish" /\ uiPc' = "idle" /\ uiReq.mode \notin SetModes) =>
           /\ UNCHANGED << ui_to_ctrl_tick_, ui_to_ctrl_data_ >>
           /\ uiReturn' = "true"
    ]_vars

\* C32 witness: a GET_* of a level's gain has answered with the value an
\* earlier SET_* stored, and the index counter is where that SET_* left it
GetAnswered ==
  /\ uiPc = "finish"
  /\ uiReq.mode \in { "GET_TASK_KP", "GET_POSTURE_KD" }
  /\ response.ok /\ response.value = 2
  /\ ui_to_ctrl_tick_ = 2

(***************************************************************************)
(* Properties of update() and stepTaskPosture.                             *)
(***************************************************************************)
\* C33: in WBCPlugin and in TaskPostureOTGPlugin, a tick of update() in
\* which stepTaskPosture reported failure commands effort 0, the computed
\* torques are commanded only in a tick in which it reported success, and
\* the tick counter is incremented in either case.
UpdateZeroesOnFailure ==
  [][ /\ (updPc = "torque" /\ updPc' = "idle") =>
           /\ updOk = "false" => commanded_effort_' = "zero"
           /\ commanded_effort_' = "tau" => updOk = "true"
           /\ tick_' = tick_ + 1
           /\ ctrl_to_ui_tick_' = ctrl_to_ui_tick_ + 1
      /\ (wbcPc = "torque" /\ wbcPc' = "idle") =>
           /\ wbc_ok = "false" => wbc_commanded_effort_' = "zero"
           /\ wbc_commanded_effort_' = "tau" => wbc_ok = "true"
           /\ wbc_tick_' = wbc_tick_ + 1
    ]_vars

\* C33 witness: a tick of TaskPostureOTGPlugin in which the trajectory
\* generator failed has ended with effort 0, and a tick of WBCPlugin in
\* which stepTaskPosture reported success has ended with the torques
FailedTickZeroed ==
  /\ updPc = "idle" /\ tick_ >= 1
  /\ otg_result = "failed" /\ updOk = "false" /\ commanded_effort_ = "zero"
  /\ wbcPc = "idle" /\ wbc_tick_ >= 1
  /\ wbc_ok = "true" /\ wbc_commanded_effort_ = "tau"

\* C34: stepTaskPosture returns true whenever its dimension checks pass
\* and, in the OTG plugin, both trajectory-generator calls succeed; it
\* returns false exactly when a check or a trajectory-generator call fails.
StepTaskPostureReturnsTrue ==
  /\ updPc = "torque" => (updOk = "true" <=> otg_result = "ok")
  /\ wbcPc = "torque" => wbc_ok = "true"

=============================================================================
